---- MODULE Spec2Model ----
(***************************************************************************)
(* Model of the india-export-import pipeline:                              *)
(*   - fetch.py: the backward monthly crawl (main), the validation of one  *)
(*     response (fetch_month_data) and the artifact store (save_zip_file); *)
(*   - parse.py: find_column_indices, clean_data, the merge in main,       *)
(*     parse_xls_file, process_zip_file and the extraction loop of main.   *)
(***************************************************************************)
EXTENDS Integers, Sequences, FiniteSets, TLC

VARIABLES
    pc,                   \* position of fetch.main
    current_date,         \* <<year, month>>, the cursor of the crawl
    data_type,            \* loop variable of "for data_type in [...]"
    consecutive_failures, \* [import |-> n, export |-> n]
    made_request,         \* whether this iteration issued a request
    response,             \* what requests.get gave (NoResponse when idle)
    content,              \* what fetch_month_data returned (None or bytes)
    fetch_log,            \* the message fetch_month_data logged last
    raw,                  \* the files under raw/: path key -> bytes
    requests,             \* the network log: keys requested, in order
    visited,              \* number of months whose iteration is complete
    slept,                \* number of time.sleep(10) calls so far
    store0,               \* the paths that existed when the run started
    crashes,              \* number of runs that were killed before their end
    ppc,                  \* position of parse.main
    zip_results,          \* what process_zip_file gives for each zip file
    merge_order,          \* another order in which the batches may be merged
    combined,             \* pl.concat(all_dataframes)
    combined_alt,         \* the batches concatenated in merge_order
    cleaned,              \* clean_data(combined)
    cleaned_alt,          \* clean_data(combined_alt)
    hpc,                  \* position of find_column_indices
    header_row,           \* its argument
    idx,                  \* the index enumerate() has reached
    indices,              \* the dict it fills
    output,               \* what save_output_files wrote (NoOutput before)
    epc,                  \* position of the extraction loop of parse.main
    zip_files,            \* the archives found under raw/
    cpu_count,            \* multiprocessing.cpu_count() of the machine
    zip_i,                \* number of archives processed so far
    xls_files,            \* the sheets of the archive being processed
    xls_i,                \* number of those sheets processed so far
    all_data,             \* process_zip_file: the frames of this archive
    extracted             \* main: all_dataframes, the non-empty frames

crawlVars == <<pc, current_date, data_type, consecutive_failures, made_request,
               response, content, fetch_log, raw, requests, visited, slept,
               store0, crashes>>

parseVars == <<ppc, zip_results, merge_order, combined, combined_alt, cleaned,
               cleaned_alt, output>>

headerVars == <<hpc, header_row, idx, indices>>

extractVars == <<epc, zip_files, cpu_count, zip_i, xls_files, xls_i, all_data,
                 extracted>>

vars == <<crawlVars, parseVars, headerVars, extractVars>>

----------------------------------------------------------------------------
(* Bounds *)

\* months one run may process before the model stops following it
MaxMonths == 6
\* initial artifacts exist only among the first ArtifactWindow months visited
ArtifactWindow == 2
\* zip files one parse run may find
MaxZips == 2
\* cells of an enumerated header row
MaxCols == 3
\* runs of the crawler that may be killed before the model stops following
MaxCrashes == 1
\* a kill is followed only if it comes within the first CrashMonths months
CrashMonths == 1
\* requests of one run that are followed with every kind of answer
MaxFetches == 3

----------------------------------------------------------------------------
(* fetch.py *)

\* Python's None, as fetch_month_data returns it
None == [none |-> TRUE]
NoResponse == [kind |-> "idle"]
NoLog == "none"

DataTypes == <<"import", "export">>
TypeSet == {"import", "export"}

max_consecutive_failures == 5

\* the month datetime.now() falls in, as <<year, month>>
Todays == {<<2024, 2>>}

\* the first two bytes of every zip record signature, b'PK'
PK == <<80, 75>>

\* response bodies: len(content), the leading bytes, whether
\* zipfile.ZipFile(io.BytesIO(content)) opens it, and the exception it raises
\* when it does not.  ZipBody: an archive of one stored member (100 bytes is
\* the smallest with a local file header); CutBody: the first 22 bytes of
\* one; SfxBody: an archive after an executable stub; OddBody: an archive
\* whose member name is flagged UTF-8 and is not; TinyBody: three bytes;
\* EndBody: an archive without members, which is its end record PK\x05\x06
\* alone; StubBody: an archive after the four bytes PK\x00\x00, which
\* ZipFile opens as it opens SfxBody; HtmlBody: an error page; NoBody: b''.
ZipBody  == [len |-> 100, head |-> <<80, 75, 3, 4>>, zip |-> TRUE,
             exc |-> "none"]
CutBody  == [len |-> 22, head |-> <<80, 75, 3, 4>>, zip |-> FALSE,
             exc |-> "BadZipFile"]
SfxBody  == [len |-> 164, head |-> <<77, 90, 0, 0>>, zip |-> TRUE,
             exc |-> "none"]
OddBody  == [len |-> 109, head |-> <<80, 75, 3, 4>>, zip |-> FALSE,
             exc |-> "UnicodeDecodeError"]
TinyBody == [len |-> 3, head |-> <<80, 75, 3>>, zip |-> FALSE,
             exc |-> "BadZipFile"]
EndBody  == [len |-> 22, head |-> <<80, 75, 5, 6>>, zip |-> TRUE,
             exc |-> "none"]
StubBody == [len |-> 104, head |-> <<80, 75, 0, 0>>, zip |-> TRUE,
             exc |-> "none"]
HtmlBody == [len |-> 106, head |-> <<60, 104, 116, 109>>, zip |-> FALSE,
             exc |-> "BadZipFile"]
NoBody   == [len |-> 0, head |-> <<>>, zip |-> FALSE, exc |-> "BadZipFile"]

\* what requests.get may do: raise a RequestException, raise something else,
\* or give a response of either status with any of the bodies
Responses ==
    {[kind |-> "error", exc |-> e] : e \in {"RequestException", "ValueError"}}
    \cup {[kind |-> "http", status |-> st, body |-> b] :
            st \in {200, 404},
            b \in {NoBody, TinyBody, HtmlBody, CutBody, SfxBody, OddBody,
                   ZipBody, EndBody, StubBody}}

\* the answers the long crawl is followed over: the transport errors, a 404
\* and the 200 responses whose archive, when one is stored, is ZipBody
CrawlResponses ==
    {r \in Responses :
        r.kind = "http" =>
            /\ r.body \in {TinyBody, CutBody, SfxBody, OddBody, ZipBody}
            /\ r.status = 404 => r.body = ZipBody}

\* the message of the except clause that takes an exception of requests.get
except_log(exc) ==
    IF exc = "RequestException" THEN "request error" ELSE "unexpected error"

\* the message after zipfile.ZipFile raised: the inner except takes
\* BadZipFile, the outer "except Exception" everything else
zip_except_log(exc) ==
    IF exc = "BadZipFile" THEN "invalid zip file" ELSE "unexpected error"

Take(s, n) == SubSeq(s, 1, IF Len(s) < n THEN Len(s) ELSE n)

\* fetch_month_data: the result and the message logged
fetch_month_data(resp) ==
    IF resp.kind = "error"
        THEN [content |-> None, log |-> except_log(resp.exc)]
    ELSE IF resp.status # 200
        THEN [content |-> None, log |-> "HTTP"]
    ELSE IF resp.body.len < 4
        THEN [content |-> None, log |-> "empty response"]
    ELSE IF Take(resp.body.head, 2) # PK
        THEN [content |-> None, log |-> "not a zip file"]
    ELSE IF ~resp.body.zip
        THEN [content |-> None, log |-> zip_except_log(resp.body.exc)]
    ELSE [content |-> resp.body, log |-> "Successfully fetched"]

\* the month before <<year, month>>
PrevMonth(d) == IF d[2] = 1 THEN <<d[1] - 1, 12>> ELSE <<d[1], d[2] - 1>>

RECURSIVE MonthsBack(_, _)
MonthsBack(d, n) == IF n = 0 THEN d ELSE MonthsBack(PrevMonth(d), n - 1)

\* Path("raw") / data_type / str(year) / f"{month:02d}.zip"
file_path(t, d) == <<t, d[1], d[2]>>

\* the test made on the legacy path raw/{year}/{month}.zip
exists_legacy(p) == <<"legacy", p[2], p[3]>> \in DOMAIN raw

\* file_path.exists()
exists(p) == p \in DOMAIN raw

\* save_zip_file called without data_type: the default 'import' is used
save_zip_file_default_type(c, d, t) ==
    [p \in DOMAIN raw \cup {file_path("import", d)} |->
        IF p = file_path("import", d) THEN c ELSE raw[p]]

\* save_zip_file: open(file_path, "wb") and write(content)
save_zip_file(c, d, t) ==
    [p \in DOMAIN raw \cup {file_path(t, d)} |->
        IF p = file_path(t, d) THEN c ELSE raw[p]]

Min(a, b) == IF a < b THEN a ELSE b

\* the loop condition with max() for min(): stop when either series is spent
LoopConditionEither ==
    /\ consecutive_failures["import"] < max_consecutive_failures
    /\ consecutive_failures["export"] < max_consecutive_failures

\* the loop condition with <= for <
LoopConditionInclusive ==
    Min(consecutive_failures["import"], consecutive_failures["export"])
        <= max_consecutive_failures

\* the loop condition reading the import counter alone
LoopConditionImportOnly ==
    consecutive_failures["import"] < max_consecutive_failures

\* min(consecutive_failures.values()) < max_consecutive_failures
LoopCondition ==
    Min(consecutive_failures["import"], consecutive_failures["export"])
        < max_consecutive_failures

Fields == <<"commodity", "country", "port", "unit", "qty", "inr", "usd">>
FieldSet == {Fields[i] : i \in DOMAIN Fields}

\* a nullable integer
NullInt == [isnull |-> TRUE, v |-> 0]
Some(x) == [isnull |-> FALSE, v |-> x]

IdleHeader ==
    /\ hpc = "idle"
    /\ header_row = <<>>
    /\ idx = 0
    /\ indices = [f \in FieldSet |-> NullInt]

\* data/export-import.parquet and .csv.zip: not written, or the frame written
NoOutput == [written |-> FALSE, df |-> <<>>]
Written(df) == [written |-> TRUE, df |-> df]

IdleParse ==
    /\ ppc = "idle"
    /\ zip_results = <<>>
    /\ merge_order = <<>>
    /\ combined = <<>>
    /\ combined_alt = <<>>
    /\ cleaned = <<>>
    /\ cleaned_alt = <<>>
    /\ output = NoOutput

IdleExtract ==
    /\ epc = "idle"
    /\ zip_files = <<>>
    /\ cpu_count = 1
    /\ zip_i = 0
    /\ xls_files = <<>>
    /\ xls_i = 0
    /\ all_data = <<>>
    /\ extracted = <<>>

InitCrawl ==
    \E today \in Todays, have \in SUBSET (TypeSet \X (0 .. ArtifactWindow - 1)) :
        /\ current_date = PrevMonth(today)
        /\ raw = [p \in {file_path(h[1], MonthsBack(PrevMonth(today), h[2])) : h \in have}
                    |-> ZipBody]
        /\ store0 = {file_path(h[1], MonthsBack(PrevMonth(today), h[2])) : h \in have}
        /\ pc = "while"
        /\ data_type = "import"
        /\ consecutive_failures = [t \in TypeSet |-> 0]
        /\ made_request = FALSE
        /\ response = NoResponse
        /\ content = None
        /\ fetch_log = NoLog
        /\ requests = <<>>
        /\ visited = 0
        /\ slept = 0
        /\ crashes = 0

\* the end of one pass of the for loop: the next data_type, or the code
\* after the loop
NextType ==
    IF data_type = DataTypes[1]
        THEN pc' = "for" /\ data_type' = DataTypes[2]
        ELSE pc' = "advance" /\ data_type' = data_type

\* while min(consecutive_failures.values()) < max_consecutive_failures
WhileTest ==
    /\ pc = "while"
    /\ IF LoopCondition
          THEN /\ visited < MaxMonths
               /\ pc' = "for"
               /\ data_type' = DataTypes[1]
               /\ made_request' = FALSE
          ELSE /\ pc' = "done"
               /\ UNCHANGED <<data_type, made_request>>
    /\ UNCHANGED <<current_date, consecutive_failures, response, content,
                   fetch_log, raw, requests, visited, slept, store0, crashes, parseVars, headerVars, extractVars>>

\* the skip branch without the reset of the counter
SkipPause ==
    /\ pc = "for"
    /\ exists(file_path(data_type, current_date))
    /\ NextType
    /\ UNCHANGED <<current_date, consecutive_failures, made_request, response,
                   content, fetch_log, raw, requests, visited, slept, store0, crashes, parseVars, headerVars, extractVars>>

\* if file_path.exists(): reset the counter, no request
Skip ==
    /\ pc = "for"
    /\ exists(file_path(data_type, current_date))
    /\ consecutive_failures' = [consecutive_failures EXCEPT ![data_type] = 0]
    /\ NextType
    /\ UNCHANGED <<current_date, made_request, response, content, fetch_log,
                   raw, requests, visited, slept, store0, crashes, parseVars, headerVars, extractVars>>

\* else: made_request = True; content = fetch_month_data(year, month, data_type)
\* with the answer of the source drawn from S
FetchFrom(S) ==
    /\ pc = "for"
    /\ ~exists(file_path(data_type, current_date))
    /\ made_request' = TRUE
    /\ requests' = Append(requests, file_path(data_type, current_date))
    /\ \E resp \in S :
        /\ response' = resp
        /\ content' = fetch_month_data(resp).content
        /\ fetch_log' = fetch_month_data(resp).log
    /\ pc' = "fetched"
    /\ UNCHANGED <<current_date, data_type, consecutive_failures, raw, visited, slept, store0, crashes, parseVars, headerVars, extractVars>>

Fetch == FetchFrom(CrawlResponses)

\* if content: save_zip_file(...); consecutive_failures[data_type] = 0
Save ==
    /\ pc = "fetched"
    /\ content # None
    /\ raw' = save_zip_file(content, current_date, data_type)
    /\ consecutive_failures' = [consecutive_failures EXCEPT ![data_type] = 0]
    /\ NextType
    /\ response' = NoResponse /\ content' = None /\ fetch_log' = NoLog
    /\ UNCHANGED <<current_date, made_request, requests, visited, slept, store0, crashes, parseVars, headerVars, extractVars>>

\* else: consecutive_failures[data_type] += 1
Fail ==
    /\ pc = "fetched"
    /\ content = None
    /\ consecutive_failures' =
          [consecutive_failures EXCEPT ![data_type] = @ + 1]
    /\ NextType
    /\ response' = NoResponse /\ content' = None /\ fetch_log' = NoLog
    /\ UNCHANGED <<current_date, made_request, raw, requests, visited, slept, store0, crashes, parseVars, headerVars, extractVars>>

\* the end of the iteration with the pause taken whatever made_request is
AdvanceAlwaysSleep ==
    /\ pc = "advance"
    /\ current_date' = PrevMonth(current_date)
    /\ visited' = visited + 1
    /\ pc' = "sleep"
    /\ UNCHANGED <<data_type, consecutive_failures, made_request, response,
                   content, fetch_log, raw, requests, slept, store0, crashes,
                   parseVars, headerVars, extractVars>>

\* move to the previous month
Advance ==
    /\ pc = "advance"
    /\ current_date' = PrevMonth(current_date)
    /\ visited' = visited + 1
    /\ pc' = IF made_request THEN "sleep" ELSE "while"
    /\ UNCHANGED <<data_type, consecutive_failures, made_request, response,
                   content, fetch_log, raw, requests, slept, store0, crashes, parseVars, headerVars, extractVars>>

\* if made_request: time.sleep(10)
Sleep ==
    /\ pc = "sleep"
    /\ slept' = slept + 1
    /\ pc' = "while"
    /\ UNCHANGED <<current_date, data_type, consecutive_failures, made_request,
                   response, content, fetch_log, raw, requests, visited,
                   store0, crashes, parseVars, headerVars, extractVars>>

NextCrawl == WhileTest \/ Skip \/ Fetch \/ Save \/ Fail \/ Advance \/ Sleep

Init == InitCrawl /\ IdleParse /\ IdleHeader /\ IdleExtract

Spec == Init /\ [][NextCrawl]_vars

\* the first MaxFetches requests of a run, answered in every way of Responses
FetchAny == Len(requests) < MaxFetches /\ FetchFrom(Responses)

NextFetch == WhileTest \/ Skip \/ FetchAny \/ Save \/ Fail \/ Advance \/ Sleep

SpecFetch == Init /\ [][NextFetch]_vars

----------------------------------------------------------------------------
(* fetch.py: save_zip_file step by step, a killed run and the run after it *)

\* the file that open(file_path, "wb") leaves before anything is written
EmptyFile == [len |-> 0, head |-> <<>>, zip |-> FALSE, exc |-> "BadZipFile"]

\* the first n bytes of c on disk
Truncated(c, n) ==
    [len |-> n, head |-> Take(c.head, n), zip |-> FALSE, exc |-> "BadZipFile"]

\* what the file may hold when the process dies inside f.write(content):
\* any prefix of the content, the whole of it included
PartialWrites(c) == {Truncated(c, n) : n \in 0 .. c.len - 1} \cup {c}

\* a complete archive that passed the checks of fetch_month_data
Complete(b) == b.len >= 4 /\ Take(b.head, 2) = PK /\ b.zip

\* with open(file_path, "wb") as f: the file exists and is empty
SaveOpen ==
    /\ pc = "fetched"
    /\ content # None
    /\ raw' = save_zip_file(EmptyFile, current_date, data_type)
    /\ pc' = "saving"
    /\ UNCHANGED <<current_date, data_type, consecutive_failures, made_request,
                   response, content, fetch_log, requests, visited, slept,
                   store0, crashes, parseVars, headerVars, extractVars>>

\* f.write(content), the close of the file, and the reset of the counter
SaveWrite ==
    /\ pc = "saving"
    /\ raw' = save_zip_file(content, current_date, data_type)
    /\ consecutive_failures' = [consecutive_failures EXCEPT ![data_type] = 0]
    /\ NextType
    /\ response' = NoResponse /\ content' = None /\ fetch_log' = NoLog
    /\ UNCHANGED <<current_date, made_request, requests, visited, slept,
                   store0, crashes, parseVars, headerVars, extractVars>>

\* the process is killed (SIGKILL, power loss, cancellation): what is in
\* memory is lost, the files stay as they are; inside save_zip_file the file
\* keeps what had reached it.  visited goes on counting the months of the
\* killed run, so that MaxMonths bounds the months of all runs together; a
\* kill is followed within the first CrashMonths months of the run.
Crash ==
    /\ pc \in {"while", "for", "fetched", "saving", "advance", "sleep"}
    /\ crashes < MaxCrashes
    /\ visited < CrashMonths
    /\ crashes' = crashes + 1
    /\ IF pc = "saving"
          THEN \E part \in PartialWrites(content) :
                   raw' = save_zip_file(part, current_date, data_type)
          ELSE raw' = raw
    /\ pc' = "crashed"
    /\ data_type' = DataTypes[1]
    /\ consecutive_failures' = [t \in TypeSet |-> 0]
    /\ made_request' = FALSE
    /\ response' = NoResponse /\ content' = None /\ fetch_log' = NoLog
    /\ requests' = <<>>
    /\ slept' = 0
    /\ UNCHANGED <<current_date, visited, store0, parseVars, headerVars, extractVars>>

\* the next run of main(): the same start, over the files the last run left
Restart ==
    /\ pc = "crashed"
    /\ \E today \in Todays : current_date' = PrevMonth(today)
    /\ store0' = DOMAIN raw
    /\ pc' = "while"
    /\ UNCHANGED <<data_type, consecutive_failures, made_request, response,
                   content, fetch_log, raw, requests, visited, slept, crashes,
                   parseVars, headerVars, extractVars>>

NextCrash ==
    \/ WhileTest \/ Skip \/ Fetch \/ SaveOpen \/ SaveWrite \/ Fail
    \/ Advance \/ Sleep \/ Crash \/ Restart

InitCrash == InitCrawl /\ IdleParse /\ IdleHeader /\ IdleExtract /\ store0 = {}

SpecCrash == InitCrash /\ [][NextCrash]_vars

----------------------------------------------------------------------------
(* parse.py: clean_data and the merge in main *)

\* strings are sequences of Unicode code points
sA == <<65>>                                \* "A"
sB == <<66>>                                \* "B"
sX == <<88>>                                \* "X"
sP == <<80>>                                \* "P"
sImport == <<73, 109, 112, 111, 114, 116>>  \* "Import"
sExport == <<69, 120, 112, 111, 114, 116>>  \* "Export"
sKGS == <<75, 71, 83>>                      \* "KGS"
sNA == <<78, 47, 65>>                       \* "N/A"
sNaN == <<78, 97, 78>>                      \* "NaN"
sBlank == <<32>>                            \* " "
sEmpty == <<>>                              \* ""
s_nan == <<110, 97, 110>>                   \* "nan"
sNbsp == <<160>>                            \* "\u00a0", a no-break space

\* a null of a string column
NullStr == [isnull |-> TRUE, v |-> <<>>]

\* one row of the frame parse_xls_file builds
Row(commodity, type, qty, unit, inr, usd) ==
    [Commodity |-> commodity, Country |-> sX, Port |-> sP,
     Year |-> Some(2021), Month |-> Some(11), Type |-> type,
     Quantity |-> qty, Unit |-> unit, INR |-> inr, USD |-> usd]

RowZeroNull  == Row(sA, sImport, Some(0), Some(sKGS), NullInt, Some(0))
RowUsd       == Row(sA, sImport, Some(0), Some(sKGS), Some(0), Some(5))
RowUsdEmpty  == Row(sA, sImport, Some(0), Some(sEmpty), Some(0), Some(5))
RowUsdNaN    == Row(sA, sImport, Some(0), Some(sNaN), Some(0), Some(5))
RowQty       == Row(sB, sImport, Some(7), NullStr, NullInt, NullInt)
RowAllNull   == Row(sA, sExport, NullInt, Some(sBlank), NullInt, NullInt)
RowExport    == Row(sA, sExport, Some(2), Some(sBlank), Some(3), NullInt)

RowUsdNbsp   == Row(sA, sImport, Some(0), Some(sNbsp), Some(0), Some(5))

Rows == {RowZeroNull, RowUsd, RowUsdEmpty, RowUsdNaN, RowQty, RowAllNull,
         RowExport, RowUsdNbsp}

\* the frames process_zip_file may return for one archive: empty, one row,
\* or two rows of one (year, month, type)
BatchPool ==
    {<<>>} \cup {<<r>> : r \in Rows}
    \cup {<<RowUsd, RowUsd>>, <<RowUsdEmpty, RowUsdNaN>>, <<RowAllNull, RowExport>>}

Range(s) == {s[i] : i \in DOMAIN s}

RECURSIVE Arrangements(_)
Arrangements(S) ==
    IF S = {} THEN {<<>>}
    ELSE UNION {{<<x>> \o t : t \in Arrangements(S \ {x})} : x \in S}

\* df.unique(): the distinct rows, in no particular order
unique(df) == Arrangements(Range(df))

\* cast(pl.Int32, strict=False): a value out of range becomes null
cast_int32(x) ==
    IF x.isnull \/ x.v < -(2 ^ 30) - 2 ^ 30 \/ x.v > (2 ^ 30 - 1) + 2 ^ 30
        THEN NullInt ELSE x

\* cast(pl.Int64, strict=False) of an Int64 column: null stays null, and
\* every integer stays as it is
cast_int64(x) == IF x.isnull THEN NullInt ELSE Some(x.v)

\* the characters strip_chars() removes: the Unicode White_Space property
IsSpace(c) ==
    \/ c \in 9 .. 13
    \/ c \in {32, 133, 160, 5760, 8232, 8233, 8239, 8287, 12288}
    \/ c \in 8192 .. 8202

RECURSIVE lstrip(_)
lstrip(s) == IF s # <<>> /\ IsSpace(Head(s)) THEN lstrip(Tail(s)) ELSE s

RECURSIVE rstrip(_)
rstrip(s) ==
    IF s # <<>> /\ IsSpace(s[Len(s)]) THEN rstrip(SubSeq(s, 1, Len(s) - 1)) ELSE s

\* str.strip_chars()
strip_chars(s) == rstrip(lstrip(s))

\* the lower case of one character out of context: the Unicode case mapping
\* (Unicode 14).  A capital sigma gives the small sigma here; to_lowercase
\* decides on its final form.
lower_char(c) ==
    IF c <= 90 THEN (IF c \in 65 .. 90 THEN <<c + 32>> ELSE <<c>>)
    ELSE IF c <= 408 THEN (
        CASE c \in 192 .. 214 -> <<c + 32>>
          [] c \in 216 .. 222 -> <<c + 32>>
          [] c \in 256 .. 302 /\ (c - 256) % 2 = 0 -> <<c + 1>>
          [] c = 304 -> <<105, 775>>
          [] c \in 306 .. 310 /\ (c - 306) % 2 = 0 -> <<c + 1>>
          [] c \in 313 .. 327 /\ (c - 313) % 2 = 0 -> <<c + 1>>
          [] c \in 330 .. 374 /\ (c - 330) % 2 = 0 -> <<c + 1>>
          [] c = 376 -> <<c - 121>>
          [] c \in 377 .. 381 /\ (c - 377) % 2 = 0 -> <<c + 1>>
          [] c = 385 -> <<c + 210>>
          [] c \in 386 .. 388 /\ (c - 386) % 2 = 0 -> <<c + 1>>
          [] c = 390 -> <<c + 206>>
          [] c = 391 -> <<c + 1>>
          [] c \in 393 .. 394 -> <<c + 205>>
          [] c = 395 -> <<c + 1>>
          [] c = 398 -> <<c + 79>>
          [] c = 399 -> <<c + 202>>
          [] c = 400 -> <<c + 203>>
          [] c = 401 -> <<c + 1>>
          [] c = 403 -> <<c + 205>>
          [] c = 404 -> <<c + 207>>
          [] c = 406 -> <<c + 211>>
          [] c = 407 -> <<c + 209>>
          [] c = 408 -> <<c + 1>>
          [] OTHER -> <<c>>)
    ELSE IF c <= 500 THEN (
        CASE c = 412 -> <<c + 211>>
          [] c = 413 -> <<c + 213>>
          [] c = 415 -> <<c + 214>>
          [] c \in 416 .. 420 /\ (c - 416) % 2 = 0 -> <<c + 1>>
          [] c = 422 -> <<c + 218>>
          [] c = 423 -> <<c + 1>>
          [] c = 425 -> <<c + 218>>
          [] c = 428 -> <<c + 1>>
          [] c = 430 -> <<c + 218>>
          [] c = 431 -> <<c + 1>>
          [] c \in 433 .. 434 -> <<c + 217>>
          [] c \in 435 .. 437 /\ (c - 435) % 2 = 0 -> <<c + 1>>
          [] c = 439 -> <<c + 219>>
          [] c = 440 -> <<c + 1>>
          [] c = 444 -> <<c + 1>>
          [] c = 452 -> <<c + 2>>
          [] c = 453 -> <<c + 1>>
          [] c = 455 -> <<c + 2>>
          [] c = 456 -> <<c + 1>>
          [] c = 458 -> <<c + 2>>
          [] c \in 459 .. 475 /\ (c - 459) % 2 = 0 -> <<c + 1>>
          [] c \in 478 .. 494 /\ (c - 478) % 2 = 0 -> <<c + 1>>
          [] c = 497 -> <<c + 2>>
          [] c \in 498 .. 500 /\ (c - 498) % 2 = 0 -> <<c + 1>>
          [] OTHER -> <<c>>)
    ELSE IF c <= 975 THEN (
        CASE c = 502 -> <<c - 97>>
          [] c = 503 -> <<c - 56>>
          [] c \in 504 .. 542 /\ (c - 504) % 2 = 0 -> <<c + 1>>
          [] c = 544 -> <<c - 130>>
          [] c \in 546 .. 562 /\ (c - 546) % 2 = 0 -> <<c + 1>>
          [] c = 570 -> <<c + 10795>>
          [] c = 571 -> <<c + 1>>
          [] c = 573 -> <<c - 163>>
          [] c = 574 -> <<c + 10792>>
          [] c = 577 -> <<c + 1>>
          [] c = 579 -> <<c - 195>>
          [] c = 580 -> <<c + 69>>
          [] c = 581 -> <<c + 71>>
          [] c \in 582 .. 590 /\ (c - 582) % 2 = 0 -> <<c + 1>>
          [] c \in 880 .. 882 /\ (c - 880) % 2 = 0 -> <<c + 1>>
          [] c = 886 -> <<c + 1>>
          [] c = 895 -> <<c + 116>>
          [] c = 902 -> <<c + 38>>
          [] c \in 904 .. 906 -> <<c + 37>>
          [] c = 908 -> <<c + 64>>
          [] c \in 910 .. 911 -> <<c + 63>>
          [] c \in 913 .. 929 -> <<c + 32>>
          [] c \in 931 .. 939 -> <<c + 32>>
          [] c = 975 -> <<c + 8>>
          [] OTHER -> <<c>>)
    ELSE IF c <= 7934 THEN (
        CASE c \in 984 .. 1006 /\ (c - 984) % 2 = 0 -> <<c + 1>>
          [] c = 1012 -> <<c - 60>>
          [] c = 1015 -> <<c + 1>>
          [] c = 1017 -> <<c - 7>>
          [] c = 1018 -> <<c + 1>>
          [] c \in 1021 .. 1023 -> <<c - 130>>
          [] c \in 1024 .. 1039 -> <<c + 80>>
          [] c \in 1040 .. 1071 -> <<c + 32>>
          [] c \in 1120 .. 1152 /\ (c - 1120) % 2 = 0 -> <<c + 1>>
          [] c \in 1162 .. 1214 /\ (c - 1162) % 2 = 0 -> <<c + 1>>
          [] c = 1216 -> <<c + 15>>
          [] c \in 1217 .. 1229 /\ (c - 1217) % 2 = 0 -> <<c + 1>>
          [] c \in 1232 .. 1326 /\ (c - 1232) % 2 = 0 -> <<c + 1>>
          [] c \in 1329 .. 1366 -> <<c + 48>>
          [] c \in 4256 .. 4293 -> <<c + 7264>>
          [] c = 4295 -> <<c + 7264>>
          [] c = 4301 -> <<c + 7264>>
          [] c \in 5024 .. 5103 -> <<c + 38864>>
          [] c \in 5104 .. 5109 -> <<c + 8>>
          [] c \in 7312 .. 7354 -> <<c - 3008>>
          [] c \in 7357 .. 7359 -> <<c - 3008>>
          [] c \in 7680 .. 7828 /\ (c - 7680) % 2 = 0 -> <<c + 1>>
          [] c = 7838 -> <<c - 7615>>
          [] c \in 7840 .. 7934 /\ (c - 7840) % 2 = 0 -> <<c + 1>>
          [] OTHER -> <<c>>)
    ELSE IF c <= 8486 THEN (
        CASE c \in 7944 .. 7951 -> <<c - 8>>
          [] c \in 7960 .. 7965 -> <<c - 8>>
          [] c \in 7976 .. 7983 -> <<c - 8>>
          [] c \in 7992 .. 7999 -> <<c - 8>>
          [] c \in 8008 .. 8013 -> <<c - 8>>
          [] c \in 8025 .. 8031 /\ (c - 8025) % 2 = 0 -> <<c - 8>>
          [] c \in 8040 .. 8047 -> <<c - 8>>
          [] c \in 8072 .. 8079 -> <<c - 8>>
          [] c \in 8088 .. 8095 -> <<c - 8>>
          [] c \in 8104 .. 8111 -> <<c - 8>>
          [] c \in 8120 .. 8121 -> <<c - 8>>
          [] c \in 8122 .. 8123 -> <<c - 74>>
          [] c = 8124 -> <<c - 9>>
          [] c \in 8136 .. 8139 -> <<c - 86>>
          [] c = 8140 -> <<c - 9>>
          [] c \in 8152 .. 8153 -> <<c - 8>>
          [] c \in 8154 .. 8155 -> <<c - 100>>
          [] c \in 8168 .. 8169 -> <<c - 8>>
          [] c \in 8170 .. 8171 -> <<c - 112>>
          [] c = 8172 -> <<c - 7>>
          [] c \in 8184 .. 8185 -> <<c - 128>>
          [] c \in 8186 .. 8187 -> <<c - 126>>
          [] c = 8188 -> <<c - 9>>
          [] c = 8486 -> <<c - 7517>>
          [] OTHER -> <<c>>)
    ELSE IF c <= 42650 THEN (
        CASE c = 8490 -> <<c - 8383>>
          [] c = 8491 -> <<c - 8262>>
          [] c = 8498 -> <<c + 28>>
          [] c \in 8544 .. 8559 -> <<c + 16>>
          [] c = 8579 -> <<c + 1>>
          [] c \in 9398 .. 9423 -> <<c + 26>>
          [] c \in 11264 .. 11311 -> <<c + 48>>
          [] c = 11360 -> <<c + 1>>
          [] c = 11362 -> <<c - 10743>>
          [] c = 11363 -> <<c - 3814>>
          [] c = 11364 -> <<c - 10727>>
          [] c \in 11367 .. 11371 /\ (c - 11367) % 2 = 0 -> <<c + 1>>
          [] c = 11373 -> <<c - 10780>>
          [] c = 11374 -> <<c - 10749>>
          [] c = 11375 -> <<c - 10783>>
          [] c = 11376 -> <<c - 10782>>
          [] c = 11378 -> <<c + 1>>
          [] c = 11381 -> <<c + 1>>
          [] c \in 11390 .. 11391 -> <<c - 10815>>
          [] c \in 11392 .. 11490 /\ (c - 11392) % 2 = 0 -> <<c + 1>>
          [] c \in 11499 .. 11501 /\ (c - 11499) % 2 = 0 -> <<c + 1>>
          [] c = 11506 -> <<c + 1>>
          [] c \in 42560 .. 42604 /\ (c - 42560) % 2 = 0 -> <<c + 1>>
          [] c \in 42624 .. 42650 /\ (c - 42624) % 2 = 0 -> <<c + 1>>
          [] OTHER -> <<c>>)
    ELSE IF c <= 42960 THEN (
        CASE c \in 42786 .. 42798 /\ (c - 42786) % 2 = 0 -> <<c + 1>>
          [] c \in 42802 .. 42862 /\ (c - 42802) % 2 = 0 -> <<c + 1>>
          [] c \in 42873 .. 42875 /\ (c - 42873) % 2 = 0 -> <<c + 1>>
          [] c = 42877 -> <<c - 35332>>
          [] c \in 42878 .. 42886 /\ (c - 42878) % 2 = 0 -> <<c + 1>>
          [] c = 42891 -> <<c + 1>>
          [] c = 42893 -> <<c - 42280>>
          [] c \in 42896 .. 42898 /\ (c - 42896) % 2 = 0 -> <<c + 1>>
          [] c \in 42902 .. 42920 /\ (c - 42902) % 2 = 0 -> <<c + 1>>
          [] c = 42922 -> <<c - 42308>>
          [] c = 42923 -> <<c - 42319>>
          [] c = 42924 -> <<c - 42315>>
          [] c = 42925 -> <<c - 42305>>
          [] c = 42926 -> <<c - 42308>>
          [] c = 42928 -> <<c - 42258>>
          [] c = 42929 -> <<c - 42282>>
          [] c = 42930 -> <<c - 42261>>
          [] c = 42931 -> <<c + 928>>
          [] c \in 42932 .. 42946 /\ (c - 42932) % 2 = 0 -> <<c + 1>>
          [] c = 42948 -> <<c - 48>>
          [] c = 42949 -> <<c - 42307>>
          [] c = 42950 -> <<c - 35384>>
          [] c \in 42951 .. 42953 /\ (c - 42951) % 2 = 0 -> <<c + 1>>
          [] c = 42960 -> <<c + 1>>
          [] OTHER -> <<c>>)
    ELSE IF c <= 125217 THEN (
        CASE c \in 42966 .. 42968 /\ (c - 42966) % 2 = 0 -> <<c + 1>>
          [] c = 42997 -> <<c + 1>>
          [] c \in 65313 .. 65338 -> <<c + 32>>
          [] c \in 66560 .. 66599 -> <<c + 40>>
          [] c \in 66736 .. 66771 -> <<c + 40>>
          [] c \in 66928 .. 66964 /\ (c - 66928) % 2 = 0 -> <<c + 39>>
          [] c \in 66929 .. 66938 -> <<c + 39>>
          [] c \in 66941 .. 66954 -> <<c + 39>>
          [] c \in 66957 .. 66962 -> <<c + 39>>
          [] c = 66965 -> <<c + 39>>
          [] c \in 68736 .. 68786 -> <<c + 64>>
          [] c \in 71840 .. 71871 -> <<c + 32>>
          [] c \in 93760 .. 93791 -> <<c + 32>>
          [] c \in 125184 .. 125217 -> <<c + 34>>
          [] OTHER -> <<c>>)
    ELSE <<c>>

\* what a character is to the Final_Sigma rule (Unicode 14): "ignorable"
\* when it is Case_Ignorable and skipped, "cased" when it is Cased and not
\* skipped, "other" for the rest
sigma_class(c) ==
    IF c <= 885 THEN (
        CASE c = 39 -> "ignorable"
          [] c = 46 -> "ignorable"
          [] c = 58 -> "ignorable"
          [] c \in 65 .. 90 -> "cased"
          [] c = 94 -> "ignorable"
          [] c = 96 -> "ignorable"
          [] c \in 97 .. 122 -> "cased"
          [] c = 168 -> "ignorable"
          [] c = 170 -> "cased"
          [] c = 173 -> "ignorable"
          [] c = 175 -> "ignorable"
          [] c = 180 -> "ignorable"
          [] c = 181 -> "cased"
          [] c \in 183 .. 184 -> "ignorable"
          [] c = 186 -> "cased"
          [] c \in 192 .. 214 -> "cased"
          [] c \in 216 .. 246 -> "cased"
          [] c \in 248 .. 442 -> "cased"
          [] c \in 444 .. 447 -> "cased"
          [] c \in 452 .. 659 -> "cased"
          [] c \in 661 .. 687 -> "cased"
          [] c \in 688 .. 879 -> "ignorable"
          [] c \in 880 .. 883 -> "cased"
          [] c \in 884 .. 885 -> "ignorable"
          [] OTHER -> "other")
    ELSE IF c <= 1524 THEN (
        CASE c \in 886 .. 887 -> "cased"
          [] c = 890 -> "ignorable"
          [] c \in 891 .. 893 -> "cased"
          [] c = 895 -> "cased"
          [] c \in 900 .. 901 -> "ignorable"
          [] c = 902 -> "cased"
          [] c = 903 -> "ignorable"
          [] c \in 904 .. 906 -> "cased"
          [] c = 908 -> "cased"
          [] c \in 910 .. 929 -> "cased"
          [] c \in 931 .. 1013 -> "cased"
          [] c \in 1015 .. 1153 -> "cased"
          [] c \in 1155 .. 1161 -> "ignorable"
          [] c \in 1162 .. 1327 -> "cased"
          [] c \in 1329 .. 1366 -> "cased"
          [] c = 1369 -> "ignorable"
          [] c = 1375 -> "ignorable"
          [] c \in 1376 .. 1416 -> "cased"
          [] c \in 1425 .. 1469 -> "ignorable"
          [] c = 1471 -> "ignorable"
          [] c \in 1473 .. 1474 -> "ignorable"
          [] c \in 1476 .. 1477 -> "ignorable"
          [] c = 1479 -> "ignorable"
          [] c = 1524 -> "ignorable"
          [] OTHER -> "other")
    ELSE IF c <= 2364 THEN (
        CASE c \in 1536 .. 1541 -> "ignorable"
          [] c \in 1552 .. 1562 -> "ignorable"
          [] c = 1564 -> "ignorable"
          [] c = 1600 -> "ignorable"
          [] c \in 1611 .. 1631 -> "ignorable"
          [] c = 1648 -> "ignorable"
          [] c \in 1750 .. 1757 -> "ignorable"
          [] c \in 1759 .. 1768 -> "ignorable"
          [] c \in 1770 .. 1773 -> "ignorable"
          [] c = 1807 -> "ignorable"
          [] c = 1809 -> "ignorable"
          [] c \in 1840 .. 1866 -> "ignorable"
          [] c \in 1958 .. 1968 -> "ignorable"
          [] c \in 2027 .. 2037 -> "ignorable"
          [] c = 2042 -> "ignorable"
          [] c = 2045 -> "ignorable"
          [] c \in 2070 .. 2093 -> "ignorable"
          [] c \in 2137 .. 2139 -> "ignorable"
          [] c = 2184 -> "ignorable"
          [] c \in 2192 .. 2193 -> "ignorable"
          [] c \in 2200 .. 2207 -> "ignorable"
          [] c \in 2249 .. 2306 -> "ignorable"
          [] c = 2362 -> "ignorable"
          [] c = 2364 -> "ignorable"
          [] OTHER -> "other")
    ELSE IF c <= 2765 THEN (
        CASE c \in 2369 .. 2376 -> "ignorable"
          [] c = 2381 -> "ignorable"
          [] c \in 2385 .. 2391 -> "ignorable"
          [] c \in 2402 .. 2403 -> "ignorable"
          [] c = 2417 -> "ignorable"
          [] c = 2433 -> "ignorable"
          [] c = 2492 -> "ignorable"
          [] c \in 2497 .. 2500 -> "ignorable"
          [] c = 2509 -> "ignorable"
          [] c \in 2530 .. 2531 -> "ignorable"
          [] c = 2558 -> "ignorable"
          [] c \in 2561 .. 2562 -> "ignorable"
          [] c = 2620 -> "ignorable"
          [] c \in 2625 .. 2626 -> "ignorable"
          [] c \in 2631 .. 2632 -> "ignorable"
          [] c \in 2635 .. 2637 -> "ignorable"
          [] c = 2641 -> "ignorable"
          [] c \in 2672 .. 2673 -> "ignorable"
          [] c = 2677 -> "ignorable"
          [] c \in 2689 .. 2690 -> "ignorable"
          [] c = 2748 -> "ignorable"
          [] c \in 2753 .. 2757 -> "ignorable"
          [] c \in 2759 .. 2760 -> "ignorable"
          [] c = 2765 -> "ignorable"
          [] OTHER -> "other")
    ELSE IF c <= 3270 THEN (
        CASE c \in 2786 .. 2787 -> "ignorable"
          [] c \in 2810 .. 2815 -> "ignorable"
          [] c = 2817 -> "ignorable"
          [] c = 2876 -> "ignorable"
          [] c = 2879 -> "ignorable"
          [] c \in 2881 .. 2884 -> "ignorable"
          [] c = 2893 -> "ignorable"
          [] c \in 2901 .. 2902 -> "ignorable"
          [] c \in 2914 .. 2915 -> "ignorable"
          [] c = 2946 -> "ignorable"
          [] c = 3008 -> "ignorable"
          [] c = 3021 -> "ignorable"
          [] c = 3072 -> "ignorable"
          [] c = 3076 -> "ignorable"
          [] c = 3132 -> "ignorable"
          [] c \in 3134 .. 3136 -> "ignorable"
          [] c \in 3142 .. 3144 -> "ignorable"
          [] c \in 3146 .. 3149 -> "ignorable"
          [] c \in 3157 .. 3158 -> "ignorable"
          [] c \in 3170 .. 3171 -> "ignorable"
          [] c = 3201 -> "ignorable"
          [] c = 3260 -> "ignorable"
          [] c = 3263 -> "ignorable"
          [] c = 3270 -> "ignorable"
          [] OTHER -> "other")
    ELSE IF c <= 3972 THEN (
        CASE c \in 3276 .. 3277 -> "ignorable"
          [] c \in 3298 .. 3299 -> "ignorable"
          [] c \in 3328 .. 3329 -> "ignorable"
          [] c \in 3387 .. 3388 -> "ignorable"
          [] c \in 3393 .. 3396 -> "ignorable"
          [] c = 3405 -> "ignorable"
          [] c \in 3426 .. 3427 -> "ignorable"
          [] c = 3457 -> "ignorable"
          [] c = 3530 -> "ignorable"
          [] c \in 3538 .. 3540 -> "ignorable"
          [] c = 3542 -> "ignorable"
          [] c = 3633 -> "ignorable"
          [] c \in 3636 .. 3642 -> "ignorable"
          [] c \in 3654 .. 3662 -> "ignorable"
          [] c = 3761 -> "ignorable"
          [] c \in 3764 .. 3772 -> "ignorable"
          [] c = 3782 -> "ignorable"
          [] c \in 3784 .. 3789 -> "ignorable"
          [] c \in 3864 .. 3865 -> "ignorable"
          [] c = 3893 -> "ignorable"
          [] c = 3895 -> "ignorable"
          [] c = 3897 -> "ignorable"
          [] c \in 3953 .. 3966 -> "ignorable"
          [] c \in 3968 .. 3972 -> "ignorable"
          [] OTHER -> "other")
    ELSE IF c <= 5117 THEN (
        CASE c \in 3974 .. 3975 -> "ignorable"
          [] c \in 3981 .. 3991 -> "ignorable"
          [] c \in 3993 .. 4028 -> "ignorable"
          [] c = 4038 -> "ignorable"
          [] c \in 4141 .. 4144 -> "ignorable"
          [] c \in 4146 .. 4151 -> "ignorable"
          [] c \in 4153 .. 4154 -> "ignorable"
          [] c \in 4157 .. 4158 -> "ignorable"
          [] c \in 4184 .. 4185 -> "ignorable"
          [] c \in 4190 .. 4192 -> "ignorable"
          [] c \in 4209 .. 4212 -> "ignorable"
          [] c = 4226 -> "ignorable"
          [] c \in 4229 .. 4230 -> "ignorable"
          [] c = 4237 -> "ignorable"
          [] c = 4253 -> "ignorable"
          [] c \in 4256 .. 4293 -> "cased"
          [] c = 4295 -> "cased"
          [] c = 4301 -> "cased"
          [] c \in 4304 .. 4346 -> "cased"
          [] c = 4348 -> "ignorable"
          [] c \in 4349 .. 4351 -> "cased"
          [] c \in 4957 .. 4959 -> "ignorable"
          [] c \in 5024 .. 5109 -> "cased"
          [] c \in 5112 .. 5117 -> "cased"
          [] OTHER -> "other")
    ELSE IF c <= 6754 THEN (
        CASE c \in 5906 .. 5908 -> "ignorable"
          [] c \in 5938 .. 5939 -> "ignorable"
          [] c \in 5970 .. 5971 -> "ignorable"
          [] c \in 6002 .. 6003 -> "ignorable"
          [] c \in 6068 .. 6069 -> "ignorable"
          [] c \in 6071 .. 6077 -> "ignorable"
          [] c = 6086 -> "ignorable"
          [] c \in 6089 .. 6099 -> "ignorable"
          [] c = 6103 -> "ignorable"
          [] c = 6109 -> "ignorable"
          [] c \in 6155 .. 6159 -> "ignorable"
          [] c = 6211 -> "ignorable"
          [] c \in 6277 .. 6278 -> "ignorable"
          [] c = 6313 -> "ignorable"
          [] c \in 6432 .. 6434 -> "ignorable"
          [] c \in 6439 .. 6440 -> "ignorable"
          [] c = 6450 -> "ignorable"
          [] c \in 6457 .. 6459 -> "ignorable"
          [] c \in 6679 .. 6680 -> "ignorable"
          [] c = 6683 -> "ignorable"
          [] c = 6742 -> "ignorable"
          [] c \in 6744 .. 6750 -> "ignorable"
          [] c = 6752 -> "ignorable"
          [] c = 6754 -> "ignorable"
          [] OTHER -> "other")
    ELSE IF c <= 7354 THEN (
        CASE c \in 6757 .. 6764 -> "ignorable"
          [] c \in 6771 .. 6780 -> "ignorable"
          [] c = 6783 -> "ignorable"
          [] c = 6823 -> "ignorable"
          [] c \in 6832 .. 6862 -> "ignorable"
          [] c \in 6912 .. 6915 -> "ignorable"
          [] c = 6964 -> "ignorable"
          [] c \in 6966 .. 6970 -> "ignorable"
          [] c = 6972 -> "ignorable"
          [] c = 6978 -> "ignorable"
          [] c \in 7019 .. 7027 -> "ignorable"
          [] c \in 7040 .. 7041 -> "ignorable"
          [] c \in 7074 .. 7077 -> "ignorable"
          [] c \in 7080 .. 7081 -> "ignorable"
          [] c \in 7083 .. 7085 -> "ignorable"
          [] c = 7142 -> "ignorable"
          [] c \in 7144 .. 7145 -> "ignorable"
          [] c = 7149 -> "ignorable"
          [] c \in 7151 .. 7153 -> "ignorable"
          [] c \in 7212 .. 7219 -> "ignorable"
          [] c \in 7222 .. 7223 -> "ignorable"
          [] c \in 7288 .. 7293 -> "ignorable"
          [] c \in 7296 .. 7304 -> "cased"
          [] c \in 7312 .. 7354 -> "cased"
          [] OTHER -> "other")
    ELSE IF c <= 8124 THEN (
        CASE c \in 7357 .. 7359 -> "cased"
          [] c \in 7376 .. 7378 -> "ignorable"
          [] c \in 7380 .. 7392 -> "ignorable"
          [] c \in 7394 .. 7400 -> "ignorable"
          [] c = 7405 -> "ignorable"
          [] c = 7412 -> "ignorable"
          [] c \in 7416 .. 7417 -> "ignorable"
          [] c \in 7424 .. 7467 -> "cased"
          [] c \in 7468 .. 7530 -> "ignorable"
          [] c \in 7531 .. 7543 -> "cased"
          [] c = 7544 -> "ignorable"
          [] c \in 7545 .. 7578 -> "cased"
          [] c \in 7579 .. 7679 -> "ignorable"
          [] c \in 7680 .. 7957 -> "cased"
          [] c \in 7960 .. 7965 -> "cased"
          [] c \in 7968 .. 8005 -> "cased"
          [] c \in 8008 .. 8013 -> "cased"
          [] c \in 8016 .. 8023 -> "cased"
          [] c = 8025 -> "cased"
          [] c = 8027 -> "cased"
          [] c = 8029 -> "cased"
          [] c \in 8031 .. 8061 -> "cased"
          [] c \in 8064 .. 8116 -> "cased"
          [] c \in 8118 .. 8124 -> "cased"
          [] OTHER -> "other")
    ELSE IF c <= 8348 THEN (
        CASE c = 8125 -> "ignorable"
          [] c = 8126 -> "cased"
          [] c \in 8127 .. 8129 -> "ignorable"
          [] c \in 8130 .. 8132 -> "cased"
          [] c \in 8134 .. 8140 -> "cased"
          [] c \in 8141 .. 8143 -> "ignorable"
          [] c \in 8144 .. 8147 -> "cased"
          [] c \in 8150 .. 8155 -> "cased"
          [] c \in 8157 .. 8159 -> "ignorable"
          [] c \in 8160 .. 8172 -> "cased"
          [] c \in 8173 .. 8175 -> "ignorable"
          [] c \in 8178 .. 8180 -> "cased"
          [] c \in 8182 .. 8188 -> "cased"
          [] c \in 8189 .. 8190 -> "ignorable"
          [] c \in 8203 .. 8207 -> "ignorable"
          [] c \in 8216 .. 8217 -> "ignorable"
          [] c = 8228 -> "ignorable"
          [] c = 8231 -> "ignorable"
          [] c \in 8234 .. 8238 -> "ignorable"
          [] c \in 8288 .. 8292 -> "ignorable"
          [] c \in 8294 .. 8303 -> "ignorable"
          [] c = 8305 -> "ignorable"
          [] c = 8319 -> "ignorable"
          [] c \in 8336 .. 8348 -> "ignorable"
          [] OTHER -> "other")
    ELSE IF c <= 11507 THEN (
        CASE c \in 8400 .. 8432 -> "ignorable"
          [] c = 8450 -> "cased"
          [] c = 8455 -> "cased"
          [] c \in 8458 .. 8467 -> "cased"
          [] c = 8469 -> "cased"
          [] c \in 8473 .. 8477 -> "cased"
          [] c = 8484 -> "cased"
          [] c = 8486 -> "cased"
          [] c = 8488 -> "cased"
          [] c \in 8490 .. 8493 -> "cased"
          [] c \in 8495 .. 8500 -> "cased"
          [] c = 8505 -> "cased"
          [] c \in 8508 .. 8511 -> "cased"
          [] c \in 8517 .. 8521 -> "cased"
          [] c = 8526 -> "cased"
          [] c \in 8544 .. 8575 -> "cased"
          [] c \in 8579 .. 8580 -> "cased"
          [] c \in 9398 .. 9449 -> "cased"
          [] c \in 11264 .. 11387 -> "cased"
          [] c \in 11388 .. 11389 -> "ignorable"
          [] c \in 11390 .. 11492 -> "cased"
          [] c \in 11499 .. 11502 -> "cased"
          [] c \in 11503 .. 11505 -> "ignorable"
          [] c \in 11506 .. 11507 -> "cased"
          [] OTHER -> "other")
    ELSE IF c <= 42785 THEN (
        CASE c \in 11520 .. 11557 -> "cased"
          [] c = 11559 -> "cased"
          [] c = 11565 -> "cased"
          [] c = 11631 -> "ignorable"
          [] c = 11647 -> "ignorable"
          [] c \in 11744 .. 11775 -> "ignorable"
          [] c = 11823 -> "ignorable"
          [] c = 12293 -> "ignorable"
          [] c \in 12330 .. 12333 -> "ignorable"
          [] c \in 12337 .. 12341 -> "ignorable"
          [] c = 12347 -> "ignorable"
          [] c \in 12441 .. 12446 -> "ignorable"
          [] c \in 12540 .. 12542 -> "ignorable"
          [] c = 40981 -> "ignorable"
          [] c \in 42232 .. 42237 -> "ignorable"
          [] c = 42508 -> "ignorable"
          [] c \in 42560 .. 42605 -> "cased"
          [] c \in 42607 .. 42610 -> "ignorable"
          [] c \in 42612 .. 42621 -> "ignorable"
          [] c = 42623 -> "ignorable"
          [] c \in 42624 .. 42651 -> "cased"
          [] c \in 42652 .. 42655 -> "ignorable"
          [] c \in 42736 .. 42737 -> "ignorable"
          [] c \in 42752 .. 42785 -> "ignorable"
          [] OTHER -> "other")
    ELSE IF c <= 43394 THEN (
        CASE c \in 42786 .. 42863 -> "cased"
          [] c = 42864 -> "ignorable"
          [] c \in 42865 .. 42887 -> "cased"
          [] c \in 42888 .. 42890 -> "ignorable"
          [] c \in 42891 .. 42894 -> "cased"
          [] c \in 42896 .. 42954 -> "cased"
          [] c \in 42960 .. 42961 -> "cased"
          [] c = 42963 -> "cased"
          [] c \in 42965 .. 42969 -> "cased"
          [] c \in 42994 .. 42996 -> "ignorable"
          [] c \in 42997 .. 42998 -> "cased"
          [] c \in 43000 .. 43001 -> "ignorable"
          [] c = 43002 -> "cased"
          [] c = 43010 -> "ignorable"
          [] c = 43014 -> "ignorable"
          [] c = 43019 -> "ignorable"
          [] c \in 43045 .. 43046 -> "ignorable"
          [] c = 43052 -> "ignorable"
          [] c \in 43204 .. 43205 -> "ignorable"
          [] c \in 43232 .. 43249 -> "ignorable"
          [] c = 43263 -> "ignorable"
          [] c \in 43302 .. 43309 -> "ignorable"
          [] c \in 43335 .. 43345 -> "ignorable"
          [] c \in 43392 .. 43394 -> "ignorable"
          [] OTHER -> "other")
    ELSE IF c <= 43880 THEN (
        CASE c = 43443 -> "ignorable"
          [] c \in 43446 .. 43449 -> "ignorable"
          [] c \in 43452 .. 43453 -> "ignorable"
          [] c = 43471 -> "ignorable"
          [] c \in 43493 .. 43494 -> "ignorable"
          [] c \in 43561 .. 43566 -> "ignorable"
          [] c \in 43569 .. 43570 -> "ignorable"
          [] c \in 43573 .. 43574 -> "ignorable"
          [] c = 43587 -> "ignorable"
          [] c = 43596 -> "ignorable"
          [] c = 43632 -> "ignorable"
          [] c = 43644 -> "ignorable"
          [] c = 43696 -> "ignorable"
          [] c \in 43698 .. 43700 -> "ignorable"
          [] c \in 43703 .. 43704 -> "ignorable"
          [] c \in 43710 .. 43711 -> "ignorable"
          [] c = 43713 -> "ignorable"
          [] c = 43741 -> "ignorable"
          [] c \in 43756 .. 43757 -> "ignorable"
          [] c \in 43763 .. 43764 -> "ignorable"
          [] c = 43766 -> "ignorable"
          [] c \in 43824 .. 43866 -> "cased"
          [] c \in 43867 .. 43871 -> "ignorable"
          [] c \in 43872 .. 43880 -> "cased"
          [] OTHER -> "other")
    ELSE IF c <= 65439 THEN (
        CASE c \in 43881 .. 43883 -> "ignorable"
          [] c \in 43888 .. 43967 -> "cased"
          [] c = 44005 -> "ignorable"
          [] c = 44008 -> "ignorable"
          [] c = 44013 -> "ignorable"
          [] c \in 64256 .. 64262 -> "cased"
          [] c \in 64275 .. 64279 -> "cased"
          [] c = 64286 -> "ignorable"
          [] c \in 64434 .. 64450 -> "ignorable"
          [] c \in 65024 .. 65039 -> "ignorable"
          [] c = 65043 -> "ignorable"
          [] c \in 65056 .. 65071 -> "ignorable"
          [] c = 65106 -> "ignorable"
          [] c = 65109 -> "ignorable"
          [] c = 65279 -> "ignorable"
          [] c = 65287 -> "ignorable"
          [] c = 65294 -> "ignorable"
          [] c = 65306 -> "ignorable"
          [] c \in 65313 .. 65338 -> "cased"
          [] c = 65342 -> "ignorable"
          [] c = 65344 -> "ignorable"
          [] c \in 65345 .. 65370 -> "cased"
          [] c = 65392 -> "ignorable"
          [] c \in 65438 .. 65439 -> "ignorable"
          [] OTHER -> "other")
    ELSE IF c <= 68159 THEN (
        CASE c = 65507 -> "ignorable"
          [] c \in 65529 .. 65531 -> "ignorable"
          [] c = 66045 -> "ignorable"
          [] c = 66272 -> "ignorable"
          [] c \in 66422 .. 66426 -> "ignorable"
          [] c \in 66560 .. 66639 -> "cased"
          [] c \in 66736 .. 66771 -> "cased"
          [] c \in 66776 .. 66811 -> "cased"
          [] c \in 66928 .. 66938 -> "cased"
          [] c \in 66940 .. 66954 -> "cased"
          [] c \in 66956 .. 66962 -> "cased"
          [] c \in 66964 .. 66965 -> "cased"
          [] c \in 66967 .. 66977 -> "cased"
          [] c \in 66979 .. 66993 -> "cased"
          [] c \in 66995 .. 67001 -> "cased"
          [] c \in 67003 .. 67004 -> "cased"
          [] c \in 67456 .. 67461 -> "ignorable"
          [] c \in 67463 .. 67504 -> "ignorable"
          [] c \in 67506 .. 67514 -> "ignorable"
          [] c \in 68097 .. 68099 -> "ignorable"
          [] c \in 68101 .. 68102 -> "ignorable"
          [] c \in 68108 .. 68111 -> "ignorable"
          [] c \in 68152 .. 68154 -> "ignorable"
          [] c = 68159 -> "ignorable"
          [] OTHER -> "other")
    ELSE IF c <= 70092 THEN (
        CASE c \in 68325 .. 68326 -> "ignorable"
          [] c \in 68736 .. 68786 -> "cased"
          [] c \in 68800 .. 68850 -> "cased"
          [] c \in 68900 .. 68903 -> "ignorable"
          [] c \in 69291 .. 69292 -> "ignorable"
          [] c \in 69446 .. 69456 -> "ignorable"
          [] c \in 69506 .. 69509 -> "ignorable"
          [] c = 69633 -> "ignorable"
          [] c \in 69688 .. 69702 -> "ignorable"
          [] c = 69744 -> "ignorable"
          [] c \in 69747 .. 69748 -> "ignorable"
          [] c \in 69759 .. 69761 -> "ignorable"
          [] c \in 69811 .. 69814 -> "ignorable"
          [] c \in 69817 .. 69818 -> "ignorable"
          [] c = 69821 -> "ignorable"
          [] c = 69826 -> "ignorable"
          [] c = 69837 -> "ignorable"
          [] c \in 69888 .. 69890 -> "ignorable"
          [] c \in 69927 .. 69931 -> "ignorable"
          [] c \in 69933 .. 69940 -> "ignorable"
          [] c = 70003 -> "ignorable"
          [] c \in 70016 .. 70017 -> "ignorable"
          [] c \in 70070 .. 70078 -> "ignorable"
          [] c \in 70089 .. 70092 -> "ignorable"
          [] OTHER -> "other")
    ELSE IF c <= 71133 THEN (
        CASE c = 70095 -> "ignorable"
          [] c \in 70191 .. 70193 -> "ignorable"
          [] c = 70196 -> "ignorable"
          [] c \in 70198 .. 70199 -> "ignorable"
          [] c = 70206 -> "ignorable"
          [] c = 70367 -> "ignorable"
          [] c \in 70371 .. 70378 -> "ignorable"
          [] c \in 70400 .. 70401 -> "ignorable"
          [] c \in 70459 .. 70460 -> "ignorable"
          [] c = 70464 -> "ignorable"
          [] c \in 70502 .. 70508 -> "ignorable"
          [] c \in 70512 .. 70516 -> "ignorable"
          [] c \in 70712 .. 70719 -> "ignorable"
          [] c \in 70722 .. 70724 -> "ignorable"
          [] c = 70726 -> "ignorable"
          [] c = 70750 -> "ignorable"
          [] c \in 70835 .. 70840 -> "ignorable"
          [] c = 70842 -> "ignorable"
          [] c \in 70847 .. 70848 -> "ignorable"
          [] c \in 70850 .. 70851 -> "ignorable"
          [] c \in 71090 .. 71093 -> "ignorable"
          [] c \in 71100 .. 71101 -> "ignorable"
          [] c \in 71103 .. 71104 -> "ignorable"
          [] c \in 71132 .. 71133 -> "ignorable"
          [] OTHER -> "other")
    ELSE IF c <= 72278 THEN (
        CASE c \in 71219 .. 71226 -> "ignorable"
          [] c = 71229 -> "ignorable"
          [] c \in 71231 .. 71232 -> "ignorable"
          [] c = 71339 -> "ignorable"
          [] c = 71341 -> "ignorable"
          [] c \in 71344 .. 71349 -> "ignorable"
          [] c = 71351 -> "ignorable"
          [] c \in 71453 .. 71455 -> "ignorable"
          [] c \in 71458 .. 71461 -> "ignorable"
          [] c \in 71463 .. 71467 -> "ignorable"
          [] c \in 71727 .. 71735 -> "ignorable"
          [] c \in 71737 .. 71738 -> "ignorable"
          [] c \in 71840 .. 71903 -> "cased"
          [] c \in 71995 .. 71996 -> "ignorable"
          [] c = 71998 -> "ignorable"
          [] c = 72003 -> "ignorable"
          [] c \in 72148 .. 72151 -> "ignorable"
          [] c \in 72154 .. 72155 -> "ignorable"
          [] c = 72160 -> "ignorable"
          [] c \in 72193 .. 72202 -> "ignorable"
          [] c \in 72243 .. 72248 -> "ignorable"
          [] c \in 72251 .. 72254 -> "ignorable"
          [] c = 72263 -> "ignorable"
          [] c \in 72273 .. 72278 -> "ignorable"
          [] OTHER -> "other")
    ELSE IF c <= 93823 THEN (
        CASE c \in 72281 .. 72283 -> "ignorable"
          [] c \in 72330 .. 72342 -> "ignorable"
          [] c \in 72344 .. 72345 -> "ignorable"
          [] c \in 72752 .. 72758 -> "ignorable"
          [] c \in 72760 .. 72765 -> "ignorable"
          [] c = 72767 -> "ignorable"
          [] c \in 72850 .. 72871 -> "ignorable"
          [] c \in 72874 .. 72880 -> "ignorable"
          [] c \in 72882 .. 72883 -> "ignorable"
          [] c \in 72885 .. 72886 -> "ignorable"
          [] c \in 73009 .. 73014 -> "ignorable"
          [] c = 73018 -> "ignorable"
          [] c \in 73020 .. 73021 -> "ignorable"
          [] c \in 73023 .. 73029 -> "ignorable"
          [] c = 73031 -> "ignorable"
          [] c \in 73104 .. 73105 -> "ignorable"
          [] c = 73109 -> "ignorable"
          [] c = 73111 -> "ignorable"
          [] c \in 73459 .. 73460 -> "ignorable"
          [] c \in 78896 .. 78904 -> "ignorable"
          [] c \in 92912 .. 92916 -> "ignorable"
          [] c \in 92976 .. 92982 -> "ignorable"
          [] c \in 92992 .. 92995 -> "ignorable"
          [] c \in 93760 .. 93823 -> "cased"
          [] OTHER -> "other")
    ELSE IF c <= 119995 THEN (
        CASE c = 94031 -> "ignorable"
          [] c \in 94095 .. 94111 -> "ignorable"
          [] c \in 94176 .. 94177 -> "ignorable"
          [] c \in 94179 .. 94180 -> "ignorable"
          [] c \in 110576 .. 110579 -> "ignorable"
          [] c \in 110581 .. 110587 -> "ignorable"
          [] c \in 110589 .. 110590 -> "ignorable"
          [] c \in 113821 .. 113822 -> "ignorable"
          [] c \in 113824 .. 113827 -> "ignorable"
          [] c \in 118528 .. 118573 -> "ignorable"
          [] c \in 118576 .. 118598 -> "ignorable"
          [] c \in 119143 .. 119145 -> "ignorable"
          [] c \in 119155 .. 119170 -> "ignorable"
          [] c \in 119173 .. 119179 -> "ignorable"
          [] c \in 119210 .. 119213 -> "ignorable"
          [] c \in 119362 .. 119364 -> "ignorable"
          [] c \in 119808 .. 119892 -> "cased"
          [] c \in 119894 .. 119964 -> "cased"
          [] c \in 119966 .. 119967 -> "cased"
          [] c = 119970 -> "cased"
          [] c \in 119973 .. 119974 -> "cased"
          [] c \in 119977 .. 119980 -> "cased"
          [] c \in 119982 .. 119993 -> "cased"
          [] c = 119995 -> "cased"
          [] OTHER -> "other")
    ELSE IF c <= 121452 THEN (
        CASE c \in 119997 .. 120003 -> "cased"
          [] c \in 120005 .. 120069 -> "cased"
          [] c \in 120071 .. 120074 -> "cased"
          [] c \in 120077 .. 120084 -> "cased"
          [] c \in 120086 .. 120092 -> "cased"
          [] c \in 120094 .. 120121 -> "cased"
          [] c \in 120123 .. 120126 -> "cased"
          [] c \in 120128 .. 120132 -> "cased"
          [] c = 120134 -> "cased"
          [] c \in 120138 .. 120144 -> "cased"
          [] c \in 120146 .. 120485 -> "cased"
          [] c \in 120488 .. 120512 -> "cased"
          [] c \in 120514 .. 120538 -> "cased"
          [] c \in 120540 .. 120570 -> "cased"
          [] c \in 120572 .. 120596 -> "cased"
          [] c \in 120598 .. 120628 -> "cased"
          [] c \in 120630 .. 120654 -> "cased"
          [] c \in 120656 .. 120686 -> "cased"
          [] c \in 120688 .. 120712 -> "cased"
          [] c \in 120714 .. 120744 -> "cased"
          [] c \in 120746 .. 120770 -> "cased"
          [] c \in 120772 .. 120779 -> "cased"
          [] c \in 121344 .. 121398 -> "ignorable"
          [] c \in 121403 .. 121452 -> "ignorable"
          [] OTHER -> "other")
    ELSE IF c <= 917999 THEN (
        CASE c = 121461 -> "ignorable"
          [] c = 121476 -> "ignorable"
          [] c \in 121499 .. 121503 -> "ignorable"
          [] c \in 121505 .. 121519 -> "ignorable"
          [] c \in 122624 .. 122633 -> "cased"
          [] c \in 122635 .. 122654 -> "cased"
          [] c \in 122880 .. 122886 -> "ignorable"
          [] c \in 122888 .. 122904 -> "ignorable"
          [] c \in 122907 .. 122913 -> "ignorable"
          [] c \in 122915 .. 122916 -> "ignorable"
          [] c \in 122918 .. 122922 -> "ignorable"
          [] c \in 123184 .. 123197 -> "ignorable"
          [] c = 123566 -> "ignorable"
          [] c \in 123628 .. 123631 -> "ignorable"
          [] c \in 125136 .. 125142 -> "ignorable"
          [] c \in 125184 .. 125251 -> "cased"
          [] c \in 125252 .. 125259 -> "ignorable"
          [] c \in 127280 .. 127305 -> "cased"
          [] c \in 127312 .. 127337 -> "cased"
          [] c \in 127344 .. 127369 -> "cased"
          [] c \in 127995 .. 127999 -> "ignorable"
          [] c = 917505 -> "ignorable"
          [] c \in 917536 .. 917631 -> "ignorable"
          [] c \in 917760 .. 917999 -> "ignorable"
          [] OTHER -> "other")
    ELSE "other"

\* str.to_lowercase(): the mapping of each character, and for the capital
\* sigma (931) the final small sigma (962) when, case-ignorable characters
\* skipped, a cased character comes before it and none comes after it, the
\* small sigma (963) otherwise
to_lowercase(s) ==
    LET RECURSIVE cased_before(_)
        cased_before(j) ==
            IF j < 1 THEN FALSE
            ELSE IF sigma_class(s[j]) = "ignorable" THEN cased_before(j - 1)
            ELSE sigma_class(s[j]) = "cased"
        RECURSIVE cased_after(_)
        cased_after(j) ==
            IF j > Len(s) THEN FALSE
            ELSE IF sigma_class(s[j]) = "ignorable" THEN cased_after(j + 1)
            ELSE sigma_class(s[j]) = "cased"
        RECURSIVE lower_from(_)
        lower_from(i) ==
            IF i > Len(s) THEN <<>>
            ELSE (IF s[i] # 931 THEN lower_char(s[i])
                  ELSE IF cased_before(i - 1) /\ ~cased_after(i + 1) THEN <<962>>
                  ELSE <<963>>)
                 \o lower_from(i + 1)
    IN  lower_from(1)

\* pl.when(null | blank | "nan").then("N/A").otherwise(Unit)
unit_or_na(u) ==
    IF u.isnull \/ strip_chars(u.v) = <<>> \/ to_lowercase(u.v) = s_nan
        THEN Some(sNA) ELSE u

\* the with_columns pass on one row
with_columns_row(r) ==
    [r EXCEPT !.Year = cast_int32(@), !.Month = cast_int32(@),
              !.Quantity = cast_int64(@), !.INR = cast_int64(@),
              !.USD = cast_int64(@), !.Unit = unit_or_na(@)]

with_columns(df) == [i \in DOMAIN df |-> with_columns_row(df[i])]

\* fill_null(0)
fill_null(x, d) == IF x.isnull THEN d ELSE x.v

\* the filter with | for &: a row with any of the three at zero
any_zero(r) ==
    \/ fill_null(r.Quantity, 0) = 0
    \/ fill_null(r.INR, 0) = 0
    \/ fill_null(r.USD, 0) = 0

\* (Quantity.fill_null(0) == 0) & (INR.fill_null(0) == 0) & (USD.fill_null(0) == 0)
all_zero(r) ==
    /\ fill_null(r.Quantity, 0) = 0
    /\ fill_null(r.INR, 0) = 0
    /\ fill_null(r.USD, 0) = 0

KeepRow(r) == ~all_zero(r)

\* df.filter(~(...))
filter(df) == SelectSeq(df, KeepRow)

\* the order of two strings, code point by code point (that of their UTF-8 bytes)
RECURSIVE StrLess(_, _)
StrLess(a, b) ==
    IF b = <<>> THEN FALSE
    ELSE IF a = <<>> THEN TRUE
    ELSE IF Head(a) # Head(b) THEN Head(a) < Head(b)
    ELSE StrLess(Tail(a), Tail(b))

\* the order of two values of an integer column: nulls first
IntLess(x, y) ==
    IF x.isnull THEN ~y.isnull
    ELSE IF y.isnull THEN FALSE
    ELSE x.v < y.v

\* the order of df.sort(['Commodity', 'Country', 'Port', 'Year', 'Month', 'Type'])
KeyLess(r, s) ==
    IF r.Commodity # s.Commodity THEN StrLess(r.Commodity, s.Commodity)
    ELSE IF r.Country # s.Country THEN StrLess(r.Country, s.Country)
    ELSE IF r.Port # s.Port THEN StrLess(r.Port, s.Port)
    ELSE IF r.Year # s.Year THEN IntLess(r.Year, s.Year)
    ELSE IF r.Month # s.Month THEN IntLess(r.Month, s.Month)
    ELSE StrLess(r.Type, s.Type)

RECURSIVE SortedFrom(_, _)
SortedFrom(df, I) ==
    IF I = {} THEN {<<>>}
    ELSE LET firsts == {i \in I : \A j \in I : ~KeyLess(df[j], df[i])}
         IN  UNION {{<<df[i]>> \o t : t \in SortedFrom(df, I \ {i})} : i \in firsts}

\* the sort left out: the frame as it is
unsorted(df) == {df}

\* df.sort([...]): the rows in ascending key order, rows of equal key in no
\* particular order
sort(df) == SortedFrom(df, DOMAIN df)

\* clean_data: the frames it may return
clean_data(df) == UNION {sort(filter(with_columns(u))) : u \in unique(df)}

RECURSIVE concat(_)
\* pl.concat
concat(dfs) == IF dfs = <<>> THEN <<>> ELSE Head(dfs) \o concat(Tail(dfs))

NotEmpty(df) == df # <<>>

Orders(n) == {f \in [1 .. n -> 1 .. n] : \A i, j \in 1 .. n : f[i] = f[j] => i = j}

IdleCrawl ==
    /\ pc = "idle"
    /\ current_date = <<0, 0>>
    /\ data_type = "import"
    /\ consecutive_failures = [t \in TypeSet |-> 0]
    /\ made_request = FALSE
    /\ response = NoResponse
    /\ content = None
    /\ fetch_log = NoLog
    /\ raw = <<>>
    /\ requests = <<>>
    /\ visited = 0
    /\ slept = 0
    /\ store0 = {}
    /\ crashes = 0

InitParse ==
    \E n \in 0 .. MaxZips :
        \E zr \in [1 .. n -> BatchPool], mo \in Orders(n) :
            /\ zip_results = zr
            /\ merge_order = mo
            /\ ppc = "start"
            /\ combined = <<>>
            /\ combined_alt = <<>>
            /\ cleaned = <<>>
            /\ cleaned_alt = <<>>
            /\ output = NoOutput

\* zip_files = sorted(raw_dir.rglob("*.zip")); if not zip_files: return
FindZips ==
    /\ ppc = "start"
    /\ ppc' = IF zip_results = <<>> THEN "no_zips" ELSE "pool"
    /\ UNCHANGED <<zip_results, merge_order, combined, combined_alt, cleaned,
                   cleaned_alt, output, crawlVars, headerVars, extractVars>>

\* results = list(pool.imap(...)), the empty frames filtered out, pl.concat
Collect ==
    /\ ppc = "pool"
    /\ LET all_dataframes == SelectSeq(zip_results, NotEmpty)
           reordered == [i \in DOMAIN zip_results |-> zip_results[merge_order[i]]]
       IN  IF all_dataframes = <<>>
             THEN /\ ppc' = "no_data"
                  /\ UNCHANGED <<combined, combined_alt>>
             ELSE /\ ppc' = "combined"
                  /\ combined' = concat(all_dataframes)
                  /\ combined_alt' = concat(SelectSeq(reordered, NotEmpty))
    /\ UNCHANGED <<zip_results, merge_order, cleaned, cleaned_alt, output, crawlVars, headerVars, extractVars>>

\* combined_df = clean_data(combined_df)
Clean ==
    /\ ppc = "combined"
    /\ cleaned' \in clean_data(combined)
    /\ cleaned_alt' \in clean_data(combined_alt)
    /\ ppc' = "cleaned"
    /\ UNCHANGED <<zip_results, merge_order, combined, combined_alt, output, crawlVars, headerVars, extractVars>>

\* the date range logged without formatting the months
DateRangeQuiet ==
    /\ ppc = "cleaned"
    /\ ppc' = "ranged"
    /\ UNCHANGED <<zip_results, merge_order, combined, combined_alt, cleaned,
                   cleaned_alt, output, crawlVars, headerVars, extractVars>>

\* the date range of the cleaned frame: min and max of Year, of Month, and
\* logger.info(f"... {year_min}-{month_min:02d} ...").  The aggregates of a
\* frame without rows are None, and formatting None with :02d raises
\* TypeError, which nothing in main catches.
DateRange ==
    /\ ppc = "cleaned"
    /\ ppc' = IF cleaned = <<>> THEN "raised" ELSE "ranged"
    /\ UNCHANGED <<zip_results, merge_order, combined, combined_alt, cleaned,
                   cleaned_alt, output, crawlVars, headerVars, extractVars>>

\* save_output_files(combined_df, data_dir)
SaveOutput ==
    /\ ppc = "ranged"
    /\ output' = Written(cleaned)
    /\ ppc' = "saved"
    /\ UNCHANGED <<zip_results, merge_order, combined, combined_alt, cleaned,
                   cleaned_alt, crawlVars, headerVars, extractVars>>

NextParse == FindZips \/ Collect \/ Clean \/ DateRange \/ SaveOutput

InitParseMain == InitParse /\ IdleCrawl /\ IdleHeader /\ IdleExtract

SpecParse == InitParseMain /\ [][NextParse]_vars

----------------------------------------------------------------------------
(* parse.py: find_column_indices *)

\* the tokens of the match rules
tCOMMODITY == <<67, 79, 77, 77, 79, 68, 73, 84, 89>>
tCOUNTRY == <<67, 79, 85, 78, 84, 82, 89>>
tPORT == <<80, 79, 82, 84>>
tUNIT == <<85, 78, 73, 84>>
tQTY == <<81, 84, 89>>
tINR == <<73, 78, 82>>
tVALUE_INR == <<86, 65, 76, 85, 69, 40, 73, 78, 82, 41>>
tUS_DOLLAR == <<85, 83, 32, 36>>
tUSD == <<85, 83, 68>>
tVALUE_US == <<86, 65, 76, 85, 69, 40, 85, 83>>

\* a cell of the header row: a str, or a value that is no str (None, NaN)
Str(s) == [isstr |-> TRUE, v |-> s]
NotStr == [isstr |-> FALSE, v |-> <<>>]

cSNo == Str(<<83, 46, 78, 111>>)                 \* "S.No"
cCommodityName == Str(<<67, 111, 109, 109, 111, 100, 105, 116, 121, 32, 78, 97, 109, 101>>)       \* "Commodity Name"
cCountryOfDestination == Str(<<67, 111, 117, 110, 116, 114, 121, 32, 111, 102, 32, 68, 101, 115, 116, 105, 110, 97, 116, 105, 111, 110>>)  \* "Country of Destination"
cPort == Str(<<80, 111, 114, 116>>)                \* "Port"
cQTY == Str(<<81, 84, 89>>)                 \* "QTY"
cUnit == Str(<<85, 110, 105, 116>>)                \* "Unit"
cValueINR == Str(<<86, 97, 108, 117, 101, 40, 73, 78, 82, 41>>)            \* "Value(INR)"
cValueUSD == Str(<<86, 97, 108, 117, 101, 40, 85, 83, 32, 36, 41>>)            \* "Value(US $)"
cCountryOfExport == Str(<<67, 111, 117, 110, 116, 114, 121, 32, 111, 102, 32, 69, 120, 112, 111, 114, 116>>)     \* "Country of Export"

cCommodityDotless == Str(<<99, 111, 109, 109, 111, 100, 305, 116, 121>>)  \* "commod\u0131ty"
cUsdLongS == Str(<<117, 383, 100>>)                \* "u\u017fd"
cStrasse == Str(<<115, 116, 114, 97, 223, 101>>)    \* "stra\u00dfe"
cPortDiaeresis == Str(<<112, 111, 114, 7831>>)     \* "por\u1e97"

Cells == {NotStr, cSNo, cCommodityName, cCountryOfDestination, cPort, cQTY,
          cUnit, cValueINR, cValueUSD, cCountryOfExport, cCommodityDotless,
          cUsdLongS, cStrasse, cPortDiaeresis}

\* the header row of a published sheet
PublishedHeader ==
    <<cSNo, cCommodityName, cCountryOfDestination, cQTY, cUnit, cValueINR,
      cValueUSD>>

\* the upper case of one character: the Unicode case mapping of str.upper()
\* (Unicode 14), every code point that has one; one character may give two
\* or three (sharp s, ligatures)
upper_char(c) ==
    IF c <= 122 THEN (IF c \in 97 .. 122 THEN <<c - 32>> ELSE <<c>>)
    ELSE IF c <= 424 THEN (
        CASE c = 181 -> <<c + 743>>
          [] c = 223 -> <<83, 83>>
          [] c \in 224 .. 246 -> <<c - 32>>
          [] c \in 248 .. 254 -> <<c - 32>>
          [] c = 255 -> <<c + 121>>
          [] c \in 257 .. 303 /\ (c - 257) % 2 = 0 -> <<c - 1>>
          [] c = 305 -> <<c - 232>>
          [] c \in 307 .. 311 /\ (c - 307) % 2 = 0 -> <<c - 1>>
          [] c \in 314 .. 328 /\ (c - 314) % 2 = 0 -> <<c - 1>>
          [] c = 329 -> <<700, 78>>
          [] c \in 331 .. 375 /\ (c - 331) % 2 = 0 -> <<c - 1>>
          [] c \in 378 .. 382 /\ (c - 378) % 2 = 0 -> <<c - 1>>
          [] c = 383 -> <<c - 300>>
          [] c = 384 -> <<c + 195>>
          [] c \in 387 .. 389 /\ (c - 387) % 2 = 0 -> <<c - 1>>
          [] c = 392 -> <<c - 1>>
          [] c = 396 -> <<c - 1>>
          [] c = 402 -> <<c - 1>>
          [] c = 405 -> <<c + 97>>
          [] c = 409 -> <<c - 1>>
          [] c = 410 -> <<c + 163>>
          [] c = 414 -> <<c + 130>>
          [] c \in 417 .. 421 /\ (c - 417) % 2 = 0 -> <<c - 1>>
          [] c = 424 -> <<c - 1>>
          [] OTHER -> <<c>>)
    ELSE IF c <= 578 THEN (
        CASE c = 429 -> <<c - 1>>
          [] c = 432 -> <<c - 1>>
          [] c \in 436 .. 438 /\ (c - 436) % 2 = 0 -> <<c - 1>>
          [] c = 441 -> <<c - 1>>
          [] c = 445 -> <<c - 1>>
          [] c = 447 -> <<c + 56>>
          [] c = 453 -> <<c - 1>>
          [] c = 454 -> <<c - 2>>
          [] c = 456 -> <<c - 1>>
          [] c = 457 -> <<c - 2>>
          [] c = 459 -> <<c - 1>>
          [] c = 460 -> <<c - 2>>
          [] c \in 462 .. 476 /\ (c - 462) % 2 = 0 -> <<c - 1>>
          [] c = 477 -> <<c - 79>>
          [] c \in 479 .. 495 /\ (c - 479) % 2 = 0 -> <<c - 1>>
          [] c = 496 -> <<74, 780>>
          [] c = 498 -> <<c - 1>>
          [] c = 499 -> <<c - 2>>
          [] c = 501 -> <<c - 1>>
          [] c \in 505 .. 543 /\ (c - 505) % 2 = 0 -> <<c - 1>>
          [] c \in 547 .. 563 /\ (c - 547) % 2 = 0 -> <<c - 1>>
          [] c = 572 -> <<c - 1>>
          [] c \in 575 .. 576 -> <<c + 10815>>
          [] c = 578 -> <<c - 1>>
          [] OTHER -> <<c>>)
    ELSE IF c <= 629 THEN (
        CASE c \in 583 .. 591 /\ (c - 583) % 2 = 0 -> <<c - 1>>
          [] c = 592 -> <<c + 10783>>
          [] c = 593 -> <<c + 10780>>
          [] c = 594 -> <<c + 10782>>
          [] c = 595 -> <<c - 210>>
          [] c = 596 -> <<c - 206>>
          [] c \in 598 .. 599 -> <<c - 205>>
          [] c = 601 -> <<c - 202>>
          [] c = 603 -> <<c - 203>>
          [] c = 604 -> <<c + 42319>>
          [] c = 608 -> <<c - 205>>
          [] c = 609 -> <<c + 42315>>
          [] c = 611 -> <<c - 207>>
          [] c = 613 -> <<c + 42280>>
          [] c = 614 -> <<c + 42308>>
          [] c = 616 -> <<c - 209>>
          [] c = 617 -> <<c - 211>>
          [] c = 618 -> <<c + 42308>>
          [] c = 619 -> <<c + 10743>>
          [] c = 620 -> <<c + 42305>>
          [] c = 623 -> <<c - 211>>
          [] c = 625 -> <<c + 10749>>
          [] c = 626 -> <<c - 213>>
          [] c = 629 -> <<c - 214>>
          [] OTHER -> <<c>>)
    ELSE IF c <= 972 THEN (
        CASE c = 637 -> <<c + 10727>>
          [] c = 640 -> <<c - 218>>
          [] c = 642 -> <<c + 42307>>
          [] c = 643 -> <<c - 218>>
          [] c = 647 -> <<c + 42282>>
          [] c = 648 -> <<c - 218>>
          [] c = 649 -> <<c - 69>>
          [] c \in 650 .. 651 -> <<c - 217>>
          [] c = 652 -> <<c - 71>>
          [] c = 658 -> <<c - 219>>
          [] c = 669 -> <<c + 42261>>
          [] c = 670 -> <<c + 42258>>
          [] c = 837 -> <<c + 84>>
          [] c \in 881 .. 883 /\ (c - 881) % 2 = 0 -> <<c - 1>>
          [] c = 887 -> <<c - 1>>
          [] c \in 891 .. 893 -> <<c + 130>>
          [] c = 912 -> <<921, 776, 769>>
          [] c = 940 -> <<c - 38>>
          [] c \in 941 .. 943 -> <<c - 37>>
          [] c = 944 -> <<933, 776, 769>>
          [] c \in 945 .. 961 -> <<c - 32>>
          [] c = 962 -> <<c - 31>>
          [] c \in 963 .. 971 -> <<c - 32>>
          [] c = 972 -> <<c - 64>>
          [] OTHER -> <<c>>)
    ELSE IF c <= 4346 THEN (
        CASE c \in 973 .. 974 -> <<c - 63>>
          [] c = 976 -> <<c - 62>>
          [] c = 977 -> <<c - 57>>
          [] c = 981 -> <<c - 47>>
          [] c = 982 -> <<c - 54>>
          [] c = 983 -> <<c - 8>>
          [] c \in 985 .. 1007 /\ (c - 985) % 2 = 0 -> <<c - 1>>
          [] c = 1008 -> <<c - 86>>
          [] c = 1009 -> <<c - 80>>
          [] c = 1010 -> <<c + 7>>
          [] c = 1011 -> <<c - 116>>
          [] c = 1013 -> <<c - 96>>
          [] c = 1016 -> <<c - 1>>
          [] c = 1019 -> <<c - 1>>
          [] c \in 1072 .. 1103 -> <<c - 32>>
          [] c \in 1104 .. 1119 -> <<c - 80>>
          [] c \in 1121 .. 1153 /\ (c - 1121) % 2 = 0 -> <<c - 1>>
          [] c \in 1163 .. 1215 /\ (c - 1163) % 2 = 0 -> <<c - 1>>
          [] c \in 1218 .. 1230 /\ (c - 1218) % 2 = 0 -> <<c - 1>>
          [] c = 1231 -> <<c - 15>>
          [] c \in 1233 .. 1327 /\ (c - 1233) % 2 = 0 -> <<c - 1>>
          [] c \in 1377 .. 1414 -> <<c - 48>>
          [] c = 1415 -> <<1333, 1362>>
          [] c \in 4304 .. 4346 -> <<c + 3008>>
          [] OTHER -> <<c>>)
    ELSE IF c <= 7975 THEN (
        CASE c \in 4349 .. 4351 -> <<c + 3008>>
          [] c \in 5112 .. 5117 -> <<c - 8>>
          [] c = 7296 -> <<c - 6254>>
          [] c = 7297 -> <<c - 6253>>
          [] c = 7298 -> <<c - 6244>>
          [] c \in 7299 .. 7300 -> <<c - 6242>>
          [] c = 7301 -> <<c - 6243>>
          [] c = 7302 -> <<c - 6236>>
          [] c = 7303 -> <<c - 6181>>
          [] c = 7304 -> <<c + 35266>>
          [] c = 7545 -> <<c + 35332>>
          [] c = 7549 -> <<c + 3814>>
          [] c = 7566 -> <<c + 35384>>
          [] c \in 7681 .. 7829 /\ (c - 7681) % 2 = 0 -> <<c - 1>>
          [] c = 7830 -> <<72, 817>>
          [] c = 7831 -> <<84, 776>>
          [] c = 7832 -> <<87, 778>>
          [] c = 7833 -> <<89, 778>>
          [] c = 7834 -> <<65, 702>>
          [] c = 7835 -> <<c - 59>>
          [] c \in 7841 .. 7935 /\ (c - 7841) % 2 = 0 -> <<c - 1>>
          [] c \in 7936 .. 7943 -> <<c + 8>>
          [] c \in 7952 .. 7957 -> <<c + 8>>
          [] c \in 7968 .. 7975 -> <<c + 8>>
          [] OTHER -> <<c>>)
    ELSE IF c <= 8073 THEN (
        CASE c \in 7984 .. 7991 -> <<c + 8>>
          [] c \in 8000 .. 8005 -> <<c + 8>>
          [] c = 8016 -> <<933, 787>>
          [] c \in 8017 .. 8023 /\ (c - 8017) % 2 = 0 -> <<c + 8>>
          [] c = 8018 -> <<933, 787, 768>>
          [] c = 8020 -> <<933, 787, 769>>
          [] c = 8022 -> <<933, 787, 834>>
          [] c \in 8032 .. 8039 -> <<c + 8>>
          [] c \in 8048 .. 8049 -> <<c + 74>>
          [] c \in 8050 .. 8053 -> <<c + 86>>
          [] c \in 8054 .. 8055 -> <<c + 100>>
          [] c \in 8056 .. 8057 -> <<c + 128>>
          [] c \in 8058 .. 8059 -> <<c + 112>>
          [] c \in 8060 .. 8061 -> <<c + 126>>
          [] c = 8064 -> <<7944, 921>>
          [] c = 8065 -> <<7945, 921>>
          [] c = 8066 -> <<7946, 921>>
          [] c = 8067 -> <<7947, 921>>
          [] c = 8068 -> <<7948, 921>>
          [] c = 8069 -> <<7949, 921>>
          [] c = 8070 -> <<7950, 921>>
          [] c = 8071 -> <<7951, 921>>
          [] c = 8072 -> <<7944, 921>>
          [] c = 8073 -> <<7945, 921>>
          [] OTHER -> <<c>>)
    ELSE IF c <= 8097 THEN (
        CASE c = 8074 -> <<7946, 921>>
          [] c = 8075 -> <<7947, 921>>
          [] c = 8076 -> <<7948, 921>>
          [] c = 8077 -> <<7949, 921>>
          [] c = 8078 -> <<7950, 921>>
          [] c = 8079 -> <<7951, 921>>
          [] c = 8080 -> <<7976, 921>>
          [] c = 8081 -> <<7977, 921>>
          [] c = 8082 -> <<7978, 921>>
          [] c = 8083 -> <<7979, 921>>
          [] c = 8084 -> <<7980, 921>>
          [] c = 8085 -> <<7981, 921>>
          [] c = 8086 -> <<7982, 921>>
          [] c = 8087 -> <<7983, 921>>
          [] c = 8088 -> <<7976, 921>>
          [] c = 8089 -> <<7977, 921>>
          [] c = 8090 -> <<7978, 921>>
          [] c = 8091 -> <<7979, 921>>
          [] c = 8092 -> <<7980, 921>>
          [] c = 8093 -> <<7981, 921>>
          [] c = 8094 -> <<7982, 921>>
          [] c = 8095 -> <<7983, 921>>
          [] c = 8096 -> <<8040, 921>>
          [] c = 8097 -> <<8041, 921>>
          [] OTHER -> <<c>>)
    ELSE IF c <= 8131 THEN (
        CASE c = 8098 -> <<8042, 921>>
          [] c = 8099 -> <<8043, 921>>
          [] c = 8100 -> <<8044, 921>>
          [] c = 8101 -> <<8045, 921>>
          [] c = 8102 -> <<8046, 921>>
          [] c = 8103 -> <<8047, 921>>
          [] c = 8104 -> <<8040, 921>>
          [] c = 8105 -> <<8041, 921>>
          [] c = 8106 -> <<8042, 921>>
          [] c = 8107 -> <<8043, 921>>
          [] c = 8108 -> <<8044, 921>>
          [] c = 8109 -> <<8045, 921>>
          [] c = 8110 -> <<8046, 921>>
          [] c = 8111 -> <<8047, 921>>
          [] c \in 8112 .. 8113 -> <<c + 8>>
          [] c = 8114 -> <<8122, 921>>
          [] c = 8115 -> <<913, 921>>
          [] c = 8116 -> <<902, 921>>
          [] c = 8118 -> <<913, 834>>
          [] c = 8119 -> <<913, 834, 921>>
          [] c = 8124 -> <<913, 921>>
          [] c = 8126 -> <<c - 7205>>
          [] c = 8130 -> <<8138, 921>>
          [] c = 8131 -> <<919, 921>>
          [] OTHER -> <<c>>)
    ELSE IF c <= 8575 THEN (
        CASE c = 8132 -> <<905, 921>>
          [] c = 8134 -> <<919, 834>>
          [] c = 8135 -> <<919, 834, 921>>
          [] c = 8140 -> <<919, 921>>
          [] c \in 8144 .. 8145 -> <<c + 8>>
          [] c = 8146 -> <<921, 776, 768>>
          [] c = 8147 -> <<921, 776, 769>>
          [] c = 8150 -> <<921, 834>>
          [] c = 8151 -> <<921, 776, 834>>
          [] c \in 8160 .. 8161 -> <<c + 8>>
          [] c = 8162 -> <<933, 776, 768>>
          [] c = 8163 -> <<933, 776, 769>>
          [] c = 8164 -> <<929, 787>>
          [] c = 8165 -> <<c + 7>>
          [] c = 8166 -> <<933, 834>>
          [] c = 8167 -> <<933, 776, 834>>
          [] c = 8178 -> <<8186, 921>>
          [] c = 8179 -> <<937, 921>>
          [] c = 8180 -> <<911, 921>>
          [] c = 8182 -> <<937, 834>>
          [] c = 8183 -> <<937, 834, 921>>
          [] c = 8188 -> <<937, 921>>
          [] c = 8526 -> <<c - 28>>
          [] c \in 8560 .. 8575 -> <<c - 16>>
          [] OTHER -> <<c>>)
    ELSE IF c <= 42900 THEN (
        CASE c = 8580 -> <<c - 1>>
          [] c \in 9424 .. 9449 -> <<c - 26>>
          [] c \in 11312 .. 11359 -> <<c - 48>>
          [] c = 11361 -> <<c - 1>>
          [] c = 11365 -> <<c - 10795>>
          [] c = 11366 -> <<c - 10792>>
          [] c \in 11368 .. 11372 /\ (c - 11368) % 2 = 0 -> <<c - 1>>
          [] c = 11379 -> <<c - 1>>
          [] c = 11382 -> <<c - 1>>
          [] c \in 11393 .. 11491 /\ (c - 11393) % 2 = 0 -> <<c - 1>>
          [] c \in 11500 .. 11502 /\ (c - 11500) % 2 = 0 -> <<c - 1>>
          [] c = 11507 -> <<c - 1>>
          [] c \in 11520 .. 11557 -> <<c - 7264>>
          [] c = 11559 -> <<c - 7264>>
          [] c = 11565 -> <<c - 7264>>
          [] c \in 42561 .. 42605 /\ (c - 42561) % 2 = 0 -> <<c - 1>>
          [] c \in 42625 .. 42651 /\ (c - 42625) % 2 = 0 -> <<c - 1>>
          [] c \in 42787 .. 42799 /\ (c - 42787) % 2 = 0 -> <<c - 1>>
          [] c \in 42803 .. 42863 /\ (c - 42803) % 2 = 0 -> <<c - 1>>
          [] c \in 42874 .. 42876 /\ (c - 42874) % 2 = 0 -> <<c - 1>>
          [] c \in 42879 .. 42887 /\ (c - 42879) % 2 = 0 -> <<c - 1>>
          [] c = 42892 -> <<c - 1>>
          [] c \in 42897 .. 42899 /\ (c - 42897) % 2 = 0 -> <<c - 1>>
          [] c = 42900 -> <<c + 48>>
          [] OTHER -> <<c>>)
    ELSE IF c <= 67003 THEN (
        CASE c \in 42903 .. 42921 /\ (c - 42903) % 2 = 0 -> <<c - 1>>
          [] c \in 42933 .. 42947 /\ (c - 42933) % 2 = 0 -> <<c - 1>>
          [] c \in 42952 .. 42954 /\ (c - 42952) % 2 = 0 -> <<c - 1>>
          [] c = 42961 -> <<c - 1>>
          [] c \in 42967 .. 42969 /\ (c - 42967) % 2 = 0 -> <<c - 1>>
          [] c = 42998 -> <<c - 1>>
          [] c = 43859 -> <<c - 928>>
          [] c \in 43888 .. 43967 -> <<c - 38864>>
          [] c = 64256 -> <<70, 70>>
          [] c = 64257 -> <<70, 73>>
          [] c = 64258 -> <<70, 76>>
          [] c = 64259 -> <<70, 70, 73>>
          [] c = 64260 -> <<70, 70, 76>>
          [] c = 64261 -> <<83, 84>>
          [] c = 64262 -> <<83, 84>>
          [] c = 64275 -> <<1348, 1350>>
          [] c = 64276 -> <<1348, 1333>>
          [] c = 64277 -> <<1348, 1339>>
          [] c = 64278 -> <<1358, 1350>>
          [] c = 64279 -> <<1348, 1341>>
          [] c \in 65345 .. 65370 -> <<c - 32>>
          [] c \in 66600 .. 66639 -> <<c - 40>>
          [] c \in 66776 .. 66811 -> <<c - 40>>
          [] c \in 66967 .. 67003 /\ (c - 66967) % 2 = 0 -> <<c - 39>>
          [] c \in 66968 .. 66977 -> <<c - 39>>
          [] c \in 66980 .. 66993 -> <<c - 39>>
          [] c \in 66996 .. 67001 -> <<c - 39>>
          [] OTHER -> <<c>>)
    ELSE IF c <= 125251 THEN (
        CASE c = 67004 -> <<c - 39>>
          [] c \in 68800 .. 68850 -> <<c - 64>>
          [] c \in 71872 .. 71903 -> <<c - 32>>
          [] c \in 93792 .. 93823 -> <<c - 32>>
          [] c \in 125218 .. 125251 -> <<c - 34>>
          [] OTHER -> <<c>>)
    ELSE <<c>>

\* str.upper()
RECURSIVE upper(_)
upper(s) == IF s = <<>> THEN <<>> ELSE upper_char(Head(s)) \o upper(Tail(s))

\* needle in hay
Contains(needle, hay) ==
    \E k \in 0 .. Len(hay) - Len(needle) :
        SubSeq(hay, k + 1, k + Len(needle)) = needle

\* the body of the for loop with the "is None" tests left out: the last
\* matching cell wins
loop_body_last_wins(ind, i, val) ==
    IF ~val.isstr THEN ind
    ELSE LET val_upper == upper(val.v)
         IN  IF Contains(tCOMMODITY, val_upper)
                 THEN [ind EXCEPT !["commodity"] = Some(i)]
             ELSE IF Contains(tCOUNTRY, val_upper)
                 THEN [ind EXCEPT !["country"] = Some(i)]
             ELSE IF Contains(tPORT, val_upper)
                 THEN [ind EXCEPT !["port"] = Some(i)]
             ELSE IF val_upper = tUNIT
                 THEN [ind EXCEPT !["unit"] = Some(i)]
             ELSE IF val_upper = tQTY
                 THEN [ind EXCEPT !["qty"] = Some(i)]
             ELSE IF Contains(tINR, val_upper) \/ Contains(tVALUE_INR, val_upper)
                 THEN [ind EXCEPT !["inr"] = Some(i)]
             ELSE IF \/ Contains(tUS_DOLLAR, val_upper)
                     \/ Contains(tUSD, val_upper)
                     \/ Contains(tVALUE_US, val_upper)
                 THEN [ind EXCEPT !["usd"] = Some(i)]
             ELSE ind

\* the body of "for idx, val in enumerate(header_row)"
loop_body(ind, i, val) ==
    IF ~val.isstr THEN ind
    ELSE LET val_upper == upper(val.v)
         IN  IF Contains(tCOMMODITY, val_upper) /\ ind["commodity"].isnull
                 THEN [ind EXCEPT !["commodity"] = Some(i)]
             ELSE IF Contains(tCOUNTRY, val_upper) /\ ind["country"].isnull
                 THEN [ind EXCEPT !["country"] = Some(i)]
             ELSE IF Contains(tPORT, val_upper) /\ ind["port"].isnull
                 THEN [ind EXCEPT !["port"] = Some(i)]
             ELSE IF val_upper = tUNIT /\ ind["unit"].isnull
                 THEN [ind EXCEPT !["unit"] = Some(i)]
             ELSE IF val_upper = tQTY /\ ind["qty"].isnull
                 THEN [ind EXCEPT !["qty"] = Some(i)]
             ELSE IF Contains(tINR, val_upper) \/ Contains(tVALUE_INR, val_upper)
                 THEN IF ind["inr"].isnull
                          THEN [ind EXCEPT !["inr"] = Some(i)] ELSE ind
             ELSE IF \/ Contains(tUS_DOLLAR, val_upper)
                     \/ Contains(tUSD, val_upper)
                     \/ Contains(tVALUE_US, val_upper)
                 THEN IF ind["usd"].isnull
                          THEN [ind EXCEPT !["usd"] = Some(i)] ELSE ind
             ELSE ind

InitHeader ==
    /\ header_row \in
          {PublishedHeader} \cup UNION {[1 .. n -> Cells] : n \in 0 .. MaxCols}
    /\ hpc = "loop"
    /\ idx = 0
    /\ indices = [f \in FieldSet |-> NullInt]

\* one pass of the loop: the cell at index idx
ScanCell ==
    /\ hpc = "loop"
    /\ idx < Len(header_row)
    /\ indices' = loop_body(indices, idx, header_row[idx + 1])
    /\ idx' = idx + 1
    /\ UNCHANGED <<hpc, header_row, crawlVars, parseVars, extractVars>>

\* return indices
Return ==
    /\ hpc = "loop"
    /\ idx = Len(header_row)
    /\ hpc' = "returned"
    /\ UNCHANGED <<header_row, idx, indices, crawlVars, parseVars, extractVars>>

NextHeader == ScanCell \/ Return

InitFindColumns == InitHeader /\ IdleCrawl /\ IdleParse /\ IdleExtract

SpecHeader == InitFindColumns /\ [][NextHeader]_vars

----------------------------------------------------------------------------
(* parse.py: parse_xls_file, process_zip_file and the extraction loop of main *)

\* find_column_indices as a function: loop_body over the cells from index i
RECURSIVE find_column_indices_from(_, _, _)
find_column_indices_from(ind, row, i) ==
    IF i = Len(row) THEN ind
    ELSE find_column_indices_from(loop_body(ind, i, row[i + 1]), row, i + 1)

find_column_indices(row) ==
    find_column_indices_from([f \in FieldSet |-> NullInt], row, 0)

\* header rows: the published one, one without a commodity column, one
\* without a country column
HeaderNoCommodity == <<cSNo, cCountryOfDestination, cPort, cQTY>>
HeaderNoCountry == <<cSNo, cCommodityName, cQTY, cUnit>>
\* the published header with a port column, as the rows of the sheets have
PortHeader ==
    <<cSNo, cCommodityName, cCountryOfDestination, cPort, cQTY, cUnit,
      cValueINR, cValueUSD>>

\* One sheet of an archive.  readable: pd.read_excel gives a frame; nrows:
\* len(df_pandas); header: df_pandas.iloc[1]; records: what lines 167-249
\* build from the rows after the header (<<>> when no row is valid).
Sheet(readable, nrows, header, records) ==
    [readable |-> readable, nrows |-> nrows, header |-> header,
     records |-> records]

\* a row as parse_xls_file leaves it: the Type of the sheet, the Unit stripped
RowQtyKgs == Row(sB, sImport, Some(7), Some(sKGS), NullInt, NullInt)

SheetUsd == Sheet(TRUE, 3, PortHeader, <<RowUsd>>)
SheetQty == Sheet(TRUE, 4, PortHeader, <<RowQtyKgs, RowUsdNaN>>)
SheetNoRows == Sheet(TRUE, 2, PublishedHeader, <<>>)
SheetCorrupt == Sheet(FALSE, 0, <<>>, <<>>)
SheetTitleOnly == Sheet(TRUE, 1, <<>>, <<>>)
SheetNoCommodity == Sheet(TRUE, 3, HeaderNoCommodity, <<RowUsdEmpty>>)
SheetNoCountry == Sheet(TRUE, 3, HeaderNoCountry, <<RowUsdNaN>>)

\* parse_xls_file: the frame of one sheet, empty on every failure; the rows
\* carry the year, the month and the type the path of the archive gave
parse_xls_file(sheet, year, month, type) ==
    IF ~sheet.readable THEN <<>>
    ELSE IF sheet.nrows < 2 THEN <<>>
    ELSE LET ind == find_column_indices(sheet.header)
         IN  IF ind["commodity"].isnull \/ ind["country"].isnull THEN <<>>
             ELSE [i \in DOMAIN sheet.records |->
                      [sheet.records[i] EXCEPT
                          !.Year = Some(year),
                          !.Month = Some(month),
                          !.Type = IF type = "import" THEN sImport
                                   ELSE sExport]]

\* One digit as str.isdigit() and int() take it (Unicode 14): 0 .. 9 for a
\* decimal digit of any script, 10 for a character isdigit() accepts and
\* int() refuses (superscripts, circled digits, ...), -1 for any other
digit_value(c) ==
    IF c <= 3567 THEN (
        CASE c \in 48 .. 57 -> (c - 48) % 10
          [] c \in 178 .. 179 -> 10
          [] c = 185 -> 10
          [] c \in 1632 .. 1641 -> (c - 1632) % 10
          [] c \in 1776 .. 1785 -> (c - 1776) % 10
          [] c \in 1984 .. 1993 -> (c - 1984) % 10
          [] c \in 2406 .. 2415 -> (c - 2406) % 10
          [] c \in 2534 .. 2543 -> (c - 2534) % 10
          [] c \in 2662 .. 2671 -> (c - 2662) % 10
          [] c \in 2790 .. 2799 -> (c - 2790) % 10
          [] c \in 2918 .. 2927 -> (c - 2918) % 10
          [] c \in 3046 .. 3055 -> (c - 3046) % 10
          [] c \in 3174 .. 3183 -> (c - 3174) % 10
          [] c \in 3302 .. 3311 -> (c - 3302) % 10
          [] c \in 3430 .. 3439 -> (c - 3430) % 10
          [] c \in 3558 .. 3567 -> (c - 3558) % 10
          [] OTHER -> -1)
    ELSE IF c <= 7241 THEN (
        CASE c \in 3664 .. 3673 -> (c - 3664) % 10
          [] c \in 3792 .. 3801 -> (c - 3792) % 10
          [] c \in 3872 .. 3881 -> (c - 3872) % 10
          [] c \in 4160 .. 4169 -> (c - 4160) % 10
          [] c \in 4240 .. 4249 -> (c - 4240) % 10
          [] c \in 4969 .. 4977 -> 10
          [] c \in 6112 .. 6121 -> (c - 6112) % 10
          [] c \in 6160 .. 6169 -> (c - 6160) % 10
          [] c \in 6470 .. 6479 -> (c - 6470) % 10
          [] c \in 6608 .. 6617 -> (c - 6608) % 10
          [] c = 6618 -> 10
          [] c \in 6784 .. 6793 -> (c - 6784) % 10
          [] c \in 6800 .. 6809 -> (c - 6800) % 10
          [] c \in 6992 .. 7001 -> (c - 6992) % 10
          [] c \in 7088 .. 7097 -> (c - 7088) % 10
          [] c \in 7232 .. 7241 -> (c - 7232) % 10
          [] OTHER -> -1)
    ELSE IF c <= 43273 THEN (
        CASE c \in 7248 .. 7257 -> (c - 7248) % 10
          [] c = 8304 -> 10
          [] c \in 8308 .. 8313 -> 10
          [] c \in 8320 .. 8329 -> 10
          [] c \in 9312 .. 9320 -> 10
          [] c \in 9332 .. 9340 -> 10
          [] c \in 9352 .. 9360 -> 10
          [] c = 9450 -> 10
          [] c \in 9461 .. 9469 -> 10
          [] c = 9471 -> 10
          [] c \in 10102 .. 10110 -> 10
          [] c \in 10112 .. 10120 -> 10
          [] c \in 10122 .. 10130 -> 10
          [] c \in 42528 .. 42537 -> (c - 42528) % 10
          [] c \in 43216 .. 43225 -> (c - 43216) % 10
          [] c \in 43264 .. 43273 -> (c - 43264) % 10
          [] OTHER -> -1)
    ELSE IF c <= 70745 THEN (
        CASE c \in 43472 .. 43481 -> (c - 43472) % 10
          [] c \in 43504 .. 43513 -> (c - 43504) % 10
          [] c \in 43600 .. 43609 -> (c - 43600) % 10
          [] c \in 44016 .. 44025 -> (c - 44016) % 10
          [] c \in 65296 .. 65305 -> (c - 65296) % 10
          [] c \in 66720 .. 66729 -> (c - 66720) % 10
          [] c \in 68160 .. 68163 -> 10
          [] c \in 68912 .. 68921 -> (c - 68912) % 10
          [] c \in 69216 .. 69224 -> 10
          [] c \in 69714 .. 69722 -> 10
          [] c \in 69734 .. 69743 -> (c - 69734) % 10
          [] c \in 69872 .. 69881 -> (c - 69872) % 10
          [] c \in 69942 .. 69951 -> (c - 69942) % 10
          [] c \in 70096 .. 70105 -> (c - 70096) % 10
          [] c \in 70384 .. 70393 -> (c - 70384) % 10
          [] c \in 70736 .. 70745 -> (c - 70736) % 10
          [] OTHER -> -1)
    ELSE IF c <= 125273 THEN (
        CASE c \in 70864 .. 70873 -> (c - 70864) % 10
          [] c \in 71248 .. 71257 -> (c - 71248) % 10
          [] c \in 71360 .. 71369 -> (c - 71360) % 10
          [] c \in 71472 .. 71481 -> (c - 71472) % 10
          [] c \in 71904 .. 71913 -> (c - 71904) % 10
          [] c \in 72016 .. 72025 -> (c - 72016) % 10
          [] c \in 72784 .. 72793 -> (c - 72784) % 10
          [] c \in 73040 .. 73049 -> (c - 73040) % 10
          [] c \in 73120 .. 73129 -> (c - 73120) % 10
          [] c \in 92768 .. 92777 -> (c - 92768) % 10
          [] c \in 92864 .. 92873 -> (c - 92864) % 10
          [] c \in 93008 .. 93017 -> (c - 93008) % 10
          [] c \in 120782 .. 120831 -> (c - 120782) % 10
          [] c \in 123200 .. 123209 -> (c - 123200) % 10
          [] c \in 123632 .. 123641 -> (c - 123632) % 10
          [] c \in 125264 .. 125273 -> (c - 125264) % 10
          [] OTHER -> -1)
    ELSE IF c <= 130041 THEN (
        CASE c \in 127232 .. 127242 -> 10
          [] c \in 130032 .. 130041 -> (c - 130032) % 10
          [] OTHER -> -1)
    ELSE -1

\* str.isdigit()
isdigit(s) == s # <<>> /\ \A i \in DOMAIN s : digit_value(s[i]) >= 0

\* int(s) for a string isdigit() accepted: the number, or ValueError raised
int(s) ==
    LET RECURSIVE number(_)
        number(t) ==
            IF t = <<>> THEN 0
            ELSE 10 * number(SubSeq(t, 1, Len(t) - 1)) + digit_value(t[Len(t)])
        refused == \E i \in DOMAIN s : digit_value(s[i]) > 9
    IN  [raised |-> refused, v |-> IF refused THEN 0 ELSE number(s)]

\* str.replace(old, ''): every occurrence of old removed, left to right
RECURSIVE replace(_, _)
replace(s, old) ==
    IF Len(s) < Len(old) THEN s
    ELSE IF SubSeq(s, 1, Len(old)) = old
        THEN replace(SubSeq(s, Len(old) + 1, Len(s)), old)
    ELSE <<Head(s)>> \o replace(Tail(s), old)

\* extract_path_info: year, month and data_type (None where not found), the
\* old structure raw/$year/$month.zip taken as import; or the ValueError
\* that int() raised inside the loop over the parts
extract_path_info(zip_path) ==
    LET s_import == <<105, 109, 112, 111, 114, 116>>
        s_export == <<101, 120, 112, 111, 114, 116>>
        s_zip == <<46, 122, 105, 112>>
        \* one pass of "for part in path_parts"
        step(info, part) ==
            IF part = s_import THEN [info EXCEPT !.data_type = "import"]
            ELSE IF part = s_export THEN [info EXCEPT !.data_type = "export"]
            ELSE IF isdigit(part) /\ Len(part) = 4
                THEN (IF int(part).raised THEN [info EXCEPT !.raised = TRUE]
                      ELSE [info EXCEPT !.year = Some(int(part).v)])
            ELSE IF Len(part) >= 4
                    /\ SubSeq(part, Len(part) - 3, Len(part)) = s_zip
                THEN LET month_str == replace(part, s_zip)
                     IN  IF ~isdigit(month_str) THEN info
                         ELSE IF int(month_str).raised
                             THEN [info EXCEPT !.raised = TRUE]
                         ELSE [info EXCEPT !.month = Some(int(month_str).v)]
            ELSE info
        RECURSIVE loop(_, _)
        loop(info, parts) ==
            IF parts = <<>> \/ info.raised THEN info
            ELSE loop(step(info, Head(parts)), Tail(parts))
        found == loop([raised |-> FALSE, year |-> NullInt, month |-> NullInt,
                       data_type |-> "none"], zip_path)
    IN  IF ~found.raised /\ ~found.year.isnull /\ ~found.month.isnull
           /\ found.data_type = "none"
            THEN [found EXCEPT !.data_type = "import"]
        ELSE found

\* the paths rglob may give, as their parts: raw/import/2021/11.zip, the
\* same under export, the old structure raw/2021/11.zip, a path without a
\* year, one whose month is a name, the year in Arabic-Indic digits, and
\* the year in superscript digits
ZipPaths ==
    LET s_raw == <<114, 97, 119>>
        s_import == <<105, 109, 112, 111, 114, 116>>
        s_export == <<101, 120, 112, 111, 114, 116>>
        s_2021 == <<50, 48, 50, 49>>
        s_11_zip == <<49, 49, 46, 122, 105, 112>>
        s_nov_zip == <<110, 111, 118, 46, 122, 105, 112>>
    IN  [import |-> <<s_raw, s_import, s_2021, s_11_zip>>,
         export |-> <<s_raw, s_export, s_2021, s_11_zip>>,
         old |-> <<s_raw, s_2021, s_11_zip>>,
         no_year |-> <<s_raw, s_import, s_11_zip>>,
         no_month |-> <<s_raw, s_import, s_2021, s_nov_zip>>,
         arabic |-> <<s_raw, s_import, <<1634, 1632, 1634, 1633>>, s_11_zip>>,
         superscript |-> <<s_raw, s_import, <<178, 8304, 178, 185>>, s_11_zip>>]

\* One member of an archive.  xls: the name ends with .xls or .xlsx;
\* readable: z.read(name) gives the bytes (no CRC error)
Member(xls, read_ok, sheet) == [xls |-> xls, read_ok |-> read_ok, sheet |-> sheet]

\* One zip file under raw/.  path: the parts of its path; opens:
\* zipfile.ZipFile(zip_path) succeeds
Archive(path, opens, members) ==
    [path |-> path, opens |-> opens, members |-> members]

ArchivePool ==
    { Archive(ZipPaths.no_year, TRUE, <<Member(TRUE, TRUE, SheetUsd)>>),
      Archive(ZipPaths.no_month, TRUE, <<Member(TRUE, TRUE, SheetUsd)>>),
      Archive(ZipPaths.superscript, TRUE, <<Member(TRUE, TRUE, SheetUsd)>>),
      Archive(ZipPaths.arabic, TRUE, <<Member(TRUE, TRUE, SheetUsd)>>),
      Archive(ZipPaths.old, TRUE, <<Member(TRUE, TRUE, SheetQty)>>),
      Archive(ZipPaths.export, TRUE, <<Member(TRUE, TRUE, SheetUsd)>>),
      Archive(ZipPaths.import, FALSE, <<>>),
      Archive(ZipPaths.import, TRUE, <<Member(FALSE, TRUE, SheetUsd)>>),
      Archive(ZipPaths.import, TRUE, <<Member(TRUE, TRUE, SheetUsd)>>),
      Archive(ZipPaths.import, TRUE, <<Member(TRUE, TRUE, SheetNoRows)>>),
      Archive(ZipPaths.import, TRUE, <<Member(TRUE, TRUE, SheetCorrupt),
                                       Member(TRUE, TRUE, SheetQty)>>),
      Archive(ZipPaths.import, TRUE, <<Member(TRUE, TRUE, SheetUsd),
                                       Member(TRUE, FALSE, SheetQty)>>),
      Archive(ZipPaths.import, TRUE, <<Member(TRUE, TRUE, SheetNoCommodity),
                                       Member(TRUE, TRUE, SheetUsd)>>),
      Archive(ZipPaths.import, TRUE, <<Member(TRUE, TRUE, SheetQty),
                                       Member(TRUE, TRUE, SheetNoCountry)>>),
      Archive(ZipPaths.import, TRUE, <<Member(TRUE, TRUE, SheetTitleOnly)>>),
      Archive(ZipPaths.import, TRUE, <<Member(TRUE, TRUE, SheetUsd),
                                       Member(TRUE, TRUE, SheetQty)>>) }

IsXls(m) == m.xls

\* the frame of one member inside the try of the loop over the sheets
sheet_frame(m, info) ==
    IF m.read_ok
        THEN parse_xls_file(m.sheet, info.year.v, info.month.v, info.data_type)
    ELSE <<>>

\* process_zip_file as a function of the archive: the frame it returns, or
\* the ValueError of extract_path_info, which is called before the try
process_zip_file(z) ==
    LET info == extract_path_info(z.path)
        sheets == SelectSeq(z.members, IsXls)
        frames == [i \in DOMAIN sheets |-> sheet_frame(sheets[i], info)]
    IN  IF info.raised THEN [raised |-> TRUE, df |-> <<>>]
        ELSE IF info.year.isnull \/ info.month.isnull
                \/ info.data_type = "none" \/ ~z.opens
            THEN [raised |-> FALSE, df |-> <<>>]
        ELSE [raised |-> FALSE, df |-> concat(SelectSeq(frames, NotEmpty))]

\* num_workers = min(cpu_count(), len(zip_files), 8)
num_workers(zfs, cpus) == Min(Min(cpus, Len(zfs)), 8)

\* all_dataframes of main as a function of the archives.  With more than
\* one worker process_zip_file_wrapper turns an exception into an empty
\* frame; the sequential loop has no try, and an exception ends main.
main_extract(zfs, cpus) ==
    LET results == [i \in DOMAIN zfs |-> process_zip_file(zfs[i])]
        frames == [i \in DOMAIN zfs |-> results[i].df]
    IN  IF num_workers(zfs, cpus) <= 1 /\ \E i \in DOMAIN zfs : results[i].raised
            THEN [raised |-> TRUE, frames |-> <<>>]
        ELSE [raised |-> FALSE, frames |-> SelectSeq(frames, NotEmpty)]

InitExtract ==
    /\ \E n \in 0 .. MaxZips : zip_files \in [1 .. n -> ArchivePool]
    /\ cpu_count \in {1, 2}
    /\ epc = "for_zip"
    /\ zip_i = 0
    /\ xls_files = <<>>
    /\ xls_i = 0
    /\ all_data = <<>>
    /\ extracted = <<>>

\* process_zip_file up to the loop over the sheets: the path, the open of the
\* archive, the list of its sheets; an empty frame ends the archive here,
\* and so does a ValueError that process_zip_file_wrapper catches.  The
\* results of the pool come in the order of zip_files (imap), as in the
\* sequential loop.
OpenZip ==
    /\ epc = "for_zip"
    /\ zip_i < Len(zip_files)
    /\ LET z == zip_files[zip_i + 1]
           info == extract_path_info(z.path)
       IN  /\ info.raised => num_workers(zip_files, cpu_count) > 1
           /\ IF info.raised \/ info.year.isnull \/ info.month.isnull
                 \/ info.data_type = "none" \/ ~z.opens
                 \/ SelectSeq(z.members, IsXls) = <<>>
                 THEN /\ zip_i' = zip_i + 1
                      /\ UNCHANGED <<epc, xls_files, xls_i, all_data>>
                 ELSE /\ xls_files' = SelectSeq(z.members, IsXls)
                      /\ xls_i' = 0
                      /\ all_data' = <<>>
                      /\ epc' = "for_xls"
                      /\ UNCHANGED zip_i
    /\ UNCHANGED <<zip_files, cpu_count, extracted, crawlVars, parseVars,
                   headerVars>>

\* the ValueError of extract_path_info in the sequential loop, which has no
\* try: main ends with the exception, and with it the run
RaiseValueError ==
    /\ epc = "for_zip"
    /\ zip_i < Len(zip_files)
    /\ extract_path_info(zip_files[zip_i + 1].path).raised
    /\ num_workers(zip_files, cpu_count) <= 1
    /\ epc' = "raised"
    /\ UNCHANGED <<zip_files, cpu_count, zip_i, xls_files, xls_i, all_data,
                   extracted, crawlVars, parseVars, headerVars>>

\* one pass of "for xls_file in xls_files": read, parse, append if not empty;
\* an exception goes to the except of this pass
ParseSheet ==
    /\ epc = "for_xls"
    /\ xls_i < Len(xls_files)
    /\ LET df == sheet_frame(xls_files[xls_i + 1],
                             extract_path_info(zip_files[zip_i + 1].path))
       IN  all_data' = IF df # <<>> THEN Append(all_data, df) ELSE all_data
    /\ xls_i' = xls_i + 1
    /\ UNCHANGED <<epc, zip_files, cpu_count, zip_i, xls_files, extracted,
                   crawlVars, parseVars, headerVars>>

\* the end of process_zip_file (pl.concat(all_data) or an empty frame) and
\* "if not df.is_empty(): all_dataframes.append(df)" in main
CloseZip ==
    /\ epc = "for_xls"
    /\ xls_i = Len(xls_files)
    /\ extracted' = IF all_data # <<>> THEN Append(extracted, concat(all_data))
                    ELSE extracted
    /\ zip_i' = zip_i + 1
    /\ epc' = "for_zip"
    /\ xls_files' = <<>> /\ xls_i' = 0 /\ all_data' = <<>>
    /\ UNCHANGED <<zip_files, cpu_count, crawlVars, parseVars, headerVars>>

\* every archive has been processed
EndExtract ==
    /\ epc = "for_zip"
    /\ zip_i = Len(zip_files)
    /\ epc' = "extracted"
    /\ UNCHANGED <<zip_files, cpu_count, zip_i, xls_files, xls_i, all_data,
                   extracted, crawlVars, parseVars, headerVars>>

NextExtract ==
    OpenZip \/ RaiseValueError \/ ParseSheet \/ CloseZip \/ EndExtract

InitExtractMain == InitExtract /\ IdleCrawl /\ IdleParse /\ IdleHeader

SpecExtract == InitExtractMain /\ [][NextExtract]_vars

----------------------------------------------------------------------------
(* Properties of the crawl *)

Other(t) == IF t = "import" THEN "export" ELSE "import"

\* the month after <<year, month>>
NextMonth(d) == IF d[2] = 12 THEN <<d[1] + 1, 1>> ELSE <<d[1], d[2] + 1>>

InIteration == pc \in {"for", "fetched", "advance"}

\* whether the series t of the month under the cursor has been dealt with
CurrentDone(t) ==
    /\ InIteration
    /\ \/ pc = "advance"
       \/ t = "import" /\ data_type = "export"

\* the number of months dealt with for series t
ProcessedCount(t) == visited + (IF CurrentDone(t) THEN 1 ELSE 0)

\* the latest month dealt with for series t (when ProcessedCount(t) > 0)
LastProcessed(t) ==
    IF CurrentDone(t) THEN current_date ELSE NextMonth(current_date)

RECURSIVE Ahead(_, _)
Ahead(d, n) == IF n = 0 THEN d ELSE Ahead(NextMonth(d), n - 1)

RECURSIVE MonthsForward(_, _)
MonthsForward(d, n) == IF n = 0 THEN {} ELSE {d} \cup MonthsForward(NextMonth(d), n - 1)

\* the months dealt with for series t
ProcessedMonths(t) == MonthsForward(LastProcessed(t), ProcessedCount(t))

\* the paths the crawl has tested so far, the one being fetched included
Checked ==
    UNION {{file_path(t, m) : m \in ProcessedMonths(t)} : t \in TypeSet}
    \cup (IF pc = "fetched" THEN {file_path(data_type, current_date)} ELSE {})

\* the number of latest months in a row, among the n months from d on, that
\* left no artifact for series t
RECURSIVE Streak(_, _, _)
Streak(t, d, n) ==
    IF n = 0 \/ file_path(t, d) \in DOMAIN raw THEN 0
    ELSE 1 + Streak(t, NextMonth(d), n - 1)

Trailing(t) == Streak(t, LastProcessed(t), ProcessedCount(t))

Attempts(t) == Cardinality({i \in DOMAIN requests : requests[i][1] = t})

BothSpent ==
    /\ consecutive_failures["import"] >= max_consecutive_failures
    /\ consecutive_failures["export"] >= max_consecutive_failures

\* C1: the loop exits exactly when both counters have reached 5 at a month
\* boundary: a month is never started with both counters >= 5, and the loop
\* is never left with a counter < 5.
C1_LoopExit ==
    /\ pc = "done" => BothSpent
    /\ (pc = "for" /\ data_type = "import") => ~BothSpent

\* the loop went on past a boundary where one counter had reached 5, and
\* stopped at the boundary where both had
C1_Witness ==
    /\ pc = "done"
    /\ consecutive_failures["import"] = 6
    /\ consecutive_failures["export"] = 5

\* no fetch of the run has succeeded: the source failed every time
SourceAlwaysFailed == \A k \in Range(requests) : k \notin DOMAIN raw

\* C2 as stated: against a source that always fails, the run ends after
\* exactly 5 requests per series, 10 in all.
C2_Original ==
    (pc = "done" /\ SourceAlwaysFailed) =>
        /\ Attempts("import") = 5
        /\ Attempts("export") = 5
        /\ Len(requests) = 10

\* the i-th month dealt with for series t, counted from 0 at the first one
MonthAt(t, i) == Ahead(LastProcessed(t), ProcessedCount(t) - 1 - i)

\* the months dealt with for series t whose artifact the run found in place
Held(t) ==
    {i \in 0 .. ProcessedCount(t) - 1 : file_path(t, MonthAt(t, i)) \in store0}

\* the artifacts found in place so far are those of the first k months, both
\* series of each, for some k >= 0
PrefixStore ==
    LET held == [t \in TypeSet |-> Held(t)]
    IN  \E k \in 0 .. visited + 1 :
            \A t \in TypeSet :
                held[t] = {i \in 0 .. ProcessedCount(t) - 1 : i < k}

FiveEach ==
    /\ Attempts("import") = 5
    /\ Attempts("export") = 5
    /\ Len(requests) = 10

\* C2 amended: against a source that always fails a run ends with 5 requests
\* or more per series, and with exactly 5 per series, 10 in all, exactly
\* when the artifacts it found in place were those of the first k months
\* visited, both series of each (k = 0: none).  Over such a store no series
\* is requested more than 5 times and the loop ends once each has been
\* requested 5 times.
C2_AlwaysFailing ==
    SourceAlwaysFailed =>
        LET prefix == PrefixStore
        IN  /\ prefix => \A t \in TypeSet : Attempts(t) <= 5
            /\ (prefix /\ pc = "while" /\ FiveEach) => ~LoopCondition
            /\ pc = "done" =>
                /\ \A t \in TypeSet : Attempts(t) >= 5
                /\ prefix <=> FiveEach

\* a run that found both artifacts of its first month in place, skipped that
\* month and ended after 5 failing months, 10 requests in all
C2_Witness ==
    /\ pc = "done"
    /\ SourceAlwaysFailed
    /\ Held("import") = {0}
    /\ Held("export") = {0}
    /\ FiveEach
    /\ visited = 6

\* C3: while every path tested so far existed when the run started, no
\* request has been issued, no pause taken, and both counters are 0.
C3_Idempotent ==
    (Checked \subseteq store0) =>
        /\ requests = <<>>
        /\ slept = 0
        /\ \A t \in TypeSet : consecutive_failures[t] = 0

\* every month of the window was present, and the crawl went through it
C3_Witness ==
    /\ visited = ArtifactWindow
    /\ Checked \subseteq store0
    /\ Cardinality(Checked) = 2 * ArtifactWindow

\* one step of the treatment of one series
C4_Step ==
    LET k == file_path(data_type, current_date)
        o == Other(data_type)
    IN  /\ (pc = "for" /\ k \in DOMAIN raw) =>
            /\ requests' = requests
            /\ raw' = raw
            /\ consecutive_failures'[data_type] = 0
            /\ consecutive_failures'[o] = consecutive_failures[o]
        /\ (pc = "for" /\ k \notin DOMAIN raw) =>
            /\ requests' = Append(requests, k)
            /\ consecutive_failures' = consecutive_failures
            /\ raw' = raw
        /\ (pc = "fetched" /\ content # None) =>
            /\ DOMAIN raw' = DOMAIN raw \cup {k}
            /\ raw'[k] = content
            /\ \A p \in DOMAIN raw : raw'[p] = raw[p]
            /\ consecutive_failures'[data_type] = 0
            /\ consecutive_failures'[o] = consecutive_failures[o]
        /\ (pc = "fetched" /\ content = None) =>
            /\ raw' = raw
            /\ consecutive_failures'[data_type] = consecutive_failures[data_type] + 1
            /\ consecutive_failures'[o] = consecutive_failures[o]

\* C4: an existing artifact means no request and a counter of 0, a
\* successful fetch stores the archive and sets the counter to 0, a failed
\* one adds 1 to that series' counter alone; so each counter is the number of
\* latest months in a row that left no artifact for its series.
C4_SkipReset ==
    /\ [](\A t \in TypeSet : consecutive_failures[t] = Trailing(t))
    /\ [][C4_Step]_vars

\* import: present at the first month, failed at the next two: 0, 1, 2
C4_Witness ==
    /\ visited = 3
    /\ pc = "while"
    /\ file_path("import", Ahead(current_date, 3)) \in store0
    /\ file_path("import", Ahead(current_date, 2)) \notin DOMAIN raw
    /\ file_path("import", Ahead(current_date, 1)) \notin DOMAIN raw
    /\ consecutive_failures["import"] = 2

\* series t has failed at every month dealt with: requested each time, and
\* never stored
FailedAlways(t) ==
    \A m \in ProcessedMonths(t) : file_path(t, m) \notin DOMAIN raw

\* C5: while one series has failed at every month and the other has fewer
\* than 5 latest months in a row without an artifact, the loop has not
\* exited, and the failing series' counter is the number of months
\* processed, whatever that number is.
C5_OneSeriesCannotStop ==
    \A t \in TypeSet :
        FailedAlways(t) =>
            /\ consecutive_failures[t] = ProcessedCount(t)
            /\ Trailing(Other(t)) < max_consecutive_failures => pc # "done"

\* import has failed 6 months in a row and the crawl is still running
C5_Witness ==
    /\ FailedAlways("import")
    /\ consecutive_failures["import"] = 6
    /\ consecutive_failures["export"] < max_consecutive_failures
    /\ pc = "while"

\* the four checks on a response, in the order of the claim
StatusOk(r) == r.kind = "http" /\ r.status = 200
LengthOk(r) == r.body.len >= 4
\* the magic number as the comment of fetch.py line 79 gives it: PK\x03\x04
MagicOk(r) == Take(r.body.head, 4) = <<80, 75, 3, 4>>
ArchiveOk(r) == r.body.zip

\* the message of the first check that fails (the order of evaluation)
FirstFailure(r) ==
    IF r.kind = "error"
        THEN (IF r.exc = "RequestException" THEN "request error"
              ELSE "unexpected error")
    ELSE IF ~StatusOk(r) THEN "HTTP"
    ELSE IF ~LengthOk(r) THEN "empty response"
    ELSE IF ~MagicOk(r) THEN "not a zip file"
    ELSE IF ~ArchiveOk(r)
        THEN (IF r.body.exc = "BadZipFile" THEN "invalid zip file"
              ELSE "unexpected error")
    ELSE "Successfully fetched"

AllChecksPass(r) == StatusOk(r) /\ LengthOk(r) /\ MagicOk(r) /\ ArchiveOk(r)

C6_Returned ==
    pc = "fetched" =>
        /\ content # None <=> AllChecksPass(response)
        /\ content # None => content = response.body
        /\ fetch_log = FirstFailure(response)

C6_Counted ==
    (pc = "fetched" /\ ~AllChecksPass(response)) =>
        /\ pc' \in {"for", "advance"}
        /\ consecutive_failures' =
              [consecutive_failures EXCEPT ![data_type] = @ + 1]

\* C6 as stated: fetch_month_data returns the payload only when the status
\* is 200, the payload has 4 bytes or more, begins with the magic signature
\* PK\x03\x04 and opens as an archive; the first check that fails decides
\* the outcome; every other response, a transport error included, gives
\* None, and the crawler goes on with that series' counter raised by exactly
\* one.
C6_Validation == []C6_Returned /\ [][C6_Counted]_vars

----------------------------------------------------------------------------
(* Properties of clean_data and of the merge *)

\* C7 as stated: after clean_data no two rows of the cleaned frame are equal
\* on all fields, rows that differed only in a unit mapped to "N/A" included.
C7_NoDuplicates ==
    ppc = "cleaned" =>
        \A i, j \in DOMAIN cleaned : cleaned[i] = cleaned[j] => i = j

NullOrZero(x) == x.isnull \/ x.v = 0

\* quantity, INR value and USD value are each null or zero
Degenerate(r) == NullOrZero(r.Quantity) /\ NullOrZero(r.INR) /\ NullOrZero(r.USD)

\* row c of the cleaned frame is row r of the input, its unit normalized
KeptAs(c, r) ==
    /\ c = [r EXCEPT !.Unit = c.Unit]
    /\ c.Unit \in {r.Unit, Some(sNA)}

\* C8: a row of the input is in the cleaned frame if and only if not all of
\* its quantity, INR value and USD value are null or zero, and the cleaned
\* frame holds no other rows.
C8_DegeneracyFilter ==
    ppc = "cleaned" =>
        /\ \A i \in DOMAIN combined :
              (\E j \in DOMAIN cleaned : KeptAs(cleaned[j], combined[i]))
                  <=> ~Degenerate(combined[i])
        /\ \A j \in DOMAIN cleaned :
              \E i \in DOMAIN combined : KeptAs(cleaned[j], combined[i])

\* (0, null, 0) is dropped and (0, 0, 5) is kept
C8_Witness ==
    /\ ppc = "cleaned"
    /\ RowZeroNull \in Range(combined)
    /\ RowUsd \in Range(combined)
    /\ cleaned = <<RowUsd>>

\* C9 as stated: the batches merged in another order, giving another
\* concatenation, are cleaned to the same sequence of rows.
C9_SameSequence ==
    (ppc = "cleaned" /\ combined # combined_alt) => cleaned = cleaned_alt

Occurrences(s, r) == Cardinality({i \in DOMAIN s : s[i] = r})

SameRows(a, b) ==
    \A r \in Range(a) \cup Range(b) : Occurrences(a, r) = Occurrences(b, r)

InKeyOrder(s) == \A i, j \in DOMAIN s : i < j => ~KeyLess(s[j], s[i])

\* C9 amended: the batches merged in any other order give the same rows,
\* each as many times, in ascending order of (commodity, country, port,
\* year, month, type); rows equal on these six fields may come in any order.
C9_SameRows ==
    ppc = "cleaned" =>
        /\ SameRows(cleaned, cleaned_alt)
        /\ InKeyOrder(cleaned)
        /\ InKeyOrder(cleaned_alt)

\* two batches merged in both orders, cleaned to two rows of different keys
C9_Witness ==
    /\ ppc = "cleaned"
    /\ merge_order = <<2, 1>>
    /\ combined # combined_alt
    /\ Len(cleaned) = 2
    /\ KeyLess(cleaned[1], cleaned[2])
    /\ cleaned = cleaned_alt

----------------------------------------------------------------------------
(* Properties of find_column_indices *)

\* the match rule of each field
Matches(f, cell) ==
    /\ cell.isstr
    /\ LET u == upper(cell.v)
       IN  CASE f = "commodity" -> Contains(tCOMMODITY, u)
             [] f = "country" -> Contains(tCOUNTRY, u)
             [] f = "port" -> Contains(tPORT, u)
             [] f = "unit" -> u = tUNIT
             [] f = "qty" -> u = tQTY
             [] f = "inr" -> Contains(tINR, u) \/ Contains(tVALUE_INR, u)
             [] f = "usd" -> \/ Contains(tUS_DOLLAR, u)
                             \/ Contains(tUSD, u)
                             \/ Contains(tVALUE_US, u)

\* the first column index whose cell satisfies the rule of f, or None
FirstMatch(f, row) ==
    LET hits == {i \in DOMAIN row : Matches(f, row[i])}
    IN  IF hits = {} THEN NullInt
        ELSE Some((CHOOSE i \in hits : \A j \in hits : i <= j) - 1)

\* C10 as stated: for every header row, each field gets the first column
\* index whose cell satisfies that field's own rule, None if there is none.
C10_FirstMatch ==
    hpc = "returned" => \A f \in FieldSet : indices[f] = FirstMatch(f, header_row)

\* no cell of the row satisfies the rules of two fields
OneRulePerCell(row) ==
    \A i \in DOMAIN row : \A f, g \in FieldSet :
        (Matches(f, row[i]) /\ Matches(g, row[i])) => f = g

\* C10 amended: for every header row in which no cell satisfies the rules of
\* more than one field, each field gets the first column index whose cell
\* satisfies its rule (None if none); in every header row no column index is
\* given to two fields, and once a field has an index a later cell never
\* changes it.
C10_FirstMatchOneRule ==
    /\ [](hpc = "returned" /\ OneRulePerCell(header_row) =>
             \A f \in FieldSet : indices[f] = FirstMatch(f, header_row))
    /\ [](\A f, g \in FieldSet :
             (f # g /\ ~indices[f].isnull) => indices[f] # indices[g])
    /\ [][\A f \in FieldSet : ~indices[f].isnull => indices'[f] = indices[f]]_vars

\* the published header: commodity 1, country 2, qty 3, unit 4, inr 5, usd 6
C10_Witness ==
    /\ hpc = "returned"
    /\ header_row = PublishedHeader
    /\ indices = [f \in FieldSet |->
                    CASE f = "commodity" -> Some(1)
                      [] f = "country" -> Some(2)
                      [] f = "qty" -> Some(3)
                      [] f = "unit" -> Some(4)
                      [] f = "inr" -> Some(5)
                      [] f = "usd" -> Some(6)
                      [] f = "port" -> NullInt]

----------------------------------------------------------------------------
(* Properties of the artifact store *)

\* C11: artifact writes are atomic.  After a run was killed every path under
\* raw/ either does not exist or holds a complete validated archive, and the
\* artifact a run is about to skip as already present is a complete one.
C11_AtomicWrites ==
    /\ pc = "crashed" => \A p \in DOMAIN raw : Complete(raw[p])
    /\ (pc = "for" /\ exists(file_path(data_type, current_date))) =>
           Complete(raw[file_path(data_type, current_date)])

----------------------------------------------------------------------------
(* Properties of the extraction *)

\* a sheet that is a failing unit: its bytes cannot be read, the workbook is
\* corrupt, it has no header row, or no header cell names the commodity or
\* the country
SheetFails(m) ==
    \/ ~m.read_ok
    \/ ~m.sheet.readable
    \/ m.sheet.nrows < 2
    \/ \A i \in DOMAIN m.sheet.header : ~Matches("commodity", m.sheet.header[i])
    \/ \A i \in DOMAIN m.sheet.header : ~Matches("country", m.sheet.header[i])

SheetWorks(m) == ~SheetFails(m)

\* an archive that is a failing unit: its path gives no year, month and type
\* or makes extract_path_info raise, it cannot be opened, or it holds no
\* valid sheet
ArchiveFails(z) ==
    \/ extract_path_info(z.path).raised
    \/ extract_path_info(z.path).year.isnull
    \/ extract_path_info(z.path).month.isnull
    \/ extract_path_info(z.path).data_type = "none"
    \/ ~z.opens
    \/ SelectSeq(SelectSeq(z.members, IsXls), SheetWorks) = <<>>

ArchiveWorks(z) == ~ArchiveFails(z)

\* the archive with its failing sheets absent
WithoutFailingSheets(z) ==
    [z EXCEPT !.members = SelectSeq(SelectSeq(z.members, IsXls), SheetWorks)]

\* the archives with every failing unit absent
Healthy(zfs) ==
    LET kept == SelectSeq(zfs, ArchiveWorks)
    IN  [i \in DOMAIN kept |-> WithoutFailingSheets(kept[i])]

\* the records the sheets processed so far gave, the failing ones absent
SheetsSoFar ==
    LET done == SelectSeq(SubSeq(xls_files, 1, xls_i), SheetWorks)
        info == extract_path_info(zip_files[zip_i + 1].path)
    IN  SelectSeq([i \in DOMAIN done |-> sheet_frame(done[i], info)], NotEmpty)

\* C12 as stated: a failure in one unit never goes past that unit.  No
\* failing sheet or archive ends the run; at every point of the extraction
\* the frames kept for the current archive are those of its sheets with the
\* failing sheets absent, and the frames kept by main are those extracted
\* from the archives processed so far with every failing archive and
\* failing sheet absent.
C12_FailureIsolation ==
    /\ epc # "raised"
    /\ epc = "for_xls" => all_data = SheetsSoFar
    /\ epc \in {"for_zip", "for_xls", "extracted"} =>
           extracted =
               main_extract(Healthy(SubSeq(zip_files, 1, zip_i)), cpu_count).frames

----------------------------------------------------------------------------
(* Properties of the output of parse.main *)

\* C13: the parse run never writes an empty dataset.  With no archive the
\* run stops at "No zip files found"; with archives that give no record it
\* stops at "No data was extracted"; in both nothing is written; and whatever
\* save_output_files has written is the cleaned dataset and holds at least
\* one record.
C13_NoEmptyOutput ==
    /\ (zip_results = <<>> /\ ppc # "start") =>
           (ppc = "no_zips" /\ ~output.written)
    /\ (zip_results # <<>> /\ concat(zip_results) = <<>>
            /\ ppc \notin {"start", "pool"}) =>
           (ppc = "no_data" /\ ~output.written)
    /\ ppc \in {"no_zips", "no_data", "raised"} => ~output.written
    /\ output.written =>
           (ppc = "saved" /\ output.df = cleaned /\ Len(output.df) >= 1)
    /\ ppc = "saved" => output.written

\* a run over one archive without records and one with a record, saved
C13_Witness ==
    /\ ppc = "saved"
    /\ \E i \in DOMAIN zip_results : zip_results[i] = <<>>
    /\ \E i \in DOMAIN zip_results : zip_results[i] = <<RowQty>>
    /\ output.written
    /\ Len(output.df) = 1

----------------------------------------------------------------------------
(* Properties of the cursor and the pause of the crawl *)

\* a request was issued for the month d, for either series
RequestedIn(d) ==
    \E i \in DOMAIN requests : requests[i][2] = d[1] /\ requests[i][3] = d[2]

\* the months whose iteration is complete
CompletedMonths == MonthsForward(NextMonth(current_date), visited)

\* the completed months in which a request was issued
RequestedMonths == {m \in CompletedMonths : RequestedIn(m)}

C14_State ==
    /\ \E today \in Todays : current_date = MonthsBack(PrevMonth(today), visited)
    /\ pc \in {"while", "for", "fetched", "advance", "done"} =>
           slept = Cardinality(RequestedMonths)
    /\ pc = "sleep" =>
           /\ RequestedIn(NextMonth(current_date))
           /\ slept + 1 = Cardinality(RequestedMonths)

C14_Step ==
    /\ pc = "advance" =>
           /\ current_date' = PrevMonth(current_date)
           /\ pc' = IF RequestedIn(current_date) THEN "sleep" ELSE "while"
           /\ slept' = slept
    /\ pc = "sleep" => (slept' = slept + 1 /\ pc' = "while")
    /\ slept' # slept => pc = "sleep"
    /\ current_date' # current_date => pc = "advance"

\* C14: after both series of a month the cursor moves to the previous
\* calendar month (December of the previous year after January), and one
\* pause follows exactly when a request was issued during that month: the
\* number of pauses taken is the number of completed months with a request,
\* and a month whose two series were skipped is followed by no pause.
C14_CursorAndPause == []C14_State /\ [][C14_Step]_vars

\* January 2024 skipped for both series (no pause), December 2023 fetched
\* (one pause), the cursor on November 2023
C14_Witness ==
    /\ pc = "while"
    /\ visited = 2
    /\ current_date = <<2023, 11>>
    /\ ~RequestedIn(<<2024, 1>>)
    /\ RequestedIn(<<2023, 12>>)
    /\ slept = 1

----------------------------------------------------------------------------
(* Frame properties of the artifact store over one run *)

C15_State ==
    /\ \A p \in store0 : p \in DOMAIN raw /\ raw[p] = ZipBody
    /\ \A i, j \in DOMAIN requests : requests[i] = requests[j] => i = j
    /\ \A i \in DOMAIN requests : requests[i] \notin store0
    /\ \A p \in DOMAIN raw : p \in store0 \/ p \in Range(requests)

C15_Step ==
    LET k == file_path(data_type, current_date)
    IN  /\ \A p \in DOMAIN raw : p \in DOMAIN raw' /\ raw'[p] = raw[p]
        /\ raw' # raw =>
              /\ pc = "fetched"
              /\ k \notin DOMAIN raw
              /\ requests # <<>> /\ requests[Len(requests)] = k
              /\ response.kind = "http" /\ response.status = 200
              /\ Complete(response.body)
              /\ DOMAIN raw' = DOMAIN raw \cup {k}
              /\ raw'[k] = response.body
        /\ (pc = "for" /\ k \in DOMAIN raw) => (raw' = raw /\ requests' = requests)
        /\ (pc = "fetched" /\ content = None) => raw' = raw
        /\ pc \notin {"for", "fetched"} => (raw' = raw /\ requests' = requests)

\* C15: over a run the stored artifacts only grow and an existing artifact
\* is never written again.  An artifact is written only for the pair just
\* fetched, absent when it was checked, with the body of the 200 response
\* that passed the checks; a skip, a failed fetch and every other step leave
\* all artifacts as they are; no pair is requested twice, and none that was
\* present at the start is requested at all.
C15_StoreGrowsOnly == []C15_State /\ [][C15_Step]_vars

\* a run that found one artifact, stored a second and failed on a third pair
C15_Witness ==
    /\ pc = "while"
    /\ \E p \in store0 : raw[p] = ZipBody
    /\ \E q \in DOMAIN raw : q \notin store0 /\ q \in Range(requests)
    /\ \E i \in DOMAIN requests : requests[i] \notin DOMAIN raw

====
